---- MODULE Spec2Model ----
(***************************************************************************)
(* LTWS v3 wallpaper-source parser (src/src/ltws/parser.py), the data      *)
(* model it constructs (src/src/ltws/models.py) and the packager whose     *)
(* archives it opens (src/src/ltws/packager.py), as a state machine over   *)
(* one source tree.                                                        *)
(*                                                                         *)
(* A source tree is a function from the relative paths of Paths to files;  *)
(* a TOML document is a function from its keys to values (a dict).         *)
(* Regular expressions and string prefixes are modelled by their value on  *)
(* the strings of the model's universe.  Directory listings are taken in   *)
(* the order of PathOrder.  WallpaperSource.loaded_at (the clock) is left  *)
(* out.                                                                    *)
(***************************************************************************)
EXTENDS Integers, Sequences, FiniteSets, TLC

VARIABLES
    strict,       \* LTWSParser.strict
    errors,       \* LTWSParser.errors
    warnings,     \* LTWSParser.warnings
    source_path,  \* what parse is called on: "dir", "ltws", "other", "missing"
    fs,           \* the source directory: a tree
    archive,      \* the .ltws file: whether it exists, opens as a tar, its members
    pc,           \* position of the parse call
    temp_dir,     \* TRUE while the extraction directory of _parse_ltws_file exists
    source_metadata, \* _parse_directory: parsed source.toml
    config,       \* _parse_directory: parsed config.toml
    categories,   \* _parse_directory: constructed Category list
    apis,         \* _parse_directory: constructed WallpaperAPI list
    result,       \* what the current parse call returned or raised
    dir_result,   \* what the caller got from parsing the directory, kept while
                  \* it packs the directory and parses the archive
    pk_strict,    \* LTWSPackager.strict
    pk_errors,    \* LTWSPackager.errors
    pk_warnings,  \* LTWSPackager.warnings
    pk_overwrite, \* the `overwrite` argument of the latest pack call
    pk_result,    \* what pack returned or raised
    m_call,       \* a constructor call of models.py: the class and its keyword data
    m_built,      \* what that constructor returned or raised
    v_source,     \* a WallpaperSource handed to an LTWSValidator
    v_other,      \* another WallpaperSource handed to the same validator
    v_errors,     \* LTWSValidator.errors
    v_warnings,   \* LTWSValidator.warnings
    v_log,        \* the validate_source calls made: which source, and what the
                  \* caller saw after each
    ve_variables, \* VariableEngine._variables
    ve_call,      \* the latest replace / build_url call: template and context
    ve_result     \* what that call returned or raised

parser_vars == <<strict, errors, warnings, pc, temp_dir, source_metadata, config,
                 categories, apis, result>>
packager_vars == <<pk_strict, pk_errors, pk_warnings, pk_overwrite, pk_result>>
models_vars == <<m_call, m_built>>
validator_vars == <<v_source, v_other, v_errors, v_warnings, v_log>>
\* what the steps of parse and pack leave alone
engine_vars == <<ve_variables, ve_call, ve_result>>
other_vars == <<models_vars, validator_vars, engine_vars>>
vars == <<source_path, fs, archive, parser_vars, dir_result, packager_vars, other_vars>>

(***************************************************************************)
(* Bounds                                                                  *)
(***************************************************************************)
\* entries of categories.toml's `categories` list
MaxCategories == 2
\* entries of source.toml's `apis` list
MaxPatterns == 2
\* single-image fields given at once to the FieldMapping constructor
MaxPopulated == 2
\* validate_source calls on one validator
MaxValidations == 3
\* pieces (literal text or one {{...}} token) of a template
MaxSegments == 2

(***************************************************************************)
(* Values                                                                  *)
(***************************************************************************)
None == "<None>"                 \* None in a string-typed field
Null == [null |-> TRUE]          \* None in a mapping- or object-typed field
EmptyDict == <<>>                \* {}

SeqsUpTo(S, n) == UNION {[1..k -> S] : k \in 0..n}

RECURSIVE SeqToSet(_)
SeqToSet(s) == IF s = <<>> THEN {} ELSE {Head(s)} \cup SeqToSet(Tail(s))

Get(d, k, default) == IF k \in DOMAIN d THEN d[k] ELSE default

\* a diagnostic or exception message: what it is about and the text it embeds
Diag(k, subject, detail) == [kind |-> k, subject |-> subject, detail |-> detail]

NoExc == [type |-> "", msg |-> <<>>]
Exc(type, msg) == [type |-> type, msg |-> msg]
Raised(e) == e.type # ""

(***************************************************************************)
(* Paths of the source tree                                                *)
(***************************************************************************)
PathOrder == << "apis/a.toml", "apis/b.toml", "apis/readme.txt",
                "categories.toml", "cats/c.toml", "config.toml",
                "extra/x.toml", "icon.png", "manifest.json",
                "parents/p.toml", "source.toml" >>

Paths == SeqToSet(PathOrder)

PathDir(p) ==
    CASE p \in {"apis/a.toml", "apis/b.toml", "apis/readme.txt"} -> "apis"
      [] p = "extra/x.toml" -> "extra"
      [] p = "parents/p.toml" -> "parents"
      [] p = "cats/c.toml" -> "cats"
      [] OTHER -> ""

PathSuffix(p) ==
    CASE p = "apis/readme.txt" -> ".txt"
      [] p = "icon.png" -> ".png"
      [] p = "manifest.json" -> ".json"
      [] OTHER -> ".toml"

Absent == [exists |-> FALSE, ok |-> FALSE, data |-> <<>>]
Toml(data) == [exists |-> TRUE, ok |-> TRUE, data |-> data]
Unreadable == [exists |-> TRUE, ok |-> FALSE, data |-> <<>>]

Exists(tree, p) == p \in DOMAIN tree /\ tree[p].exists
IsDir(tree, d) == \E p \in Paths : Exists(tree, p) /\ PathDir(p) = d

(***************************************************************************)
(* Data model (models.py)                                                  *)
(***************************************************************************)
IdMaxLen == 32
FieldMaxLen == 50
NameMaxLen == 100

\* ^[a-z][a-z0-9_]*$ on the identifiers of the universe
IdPattern(id) == id \in {"c1", "c2"}

\* ^https?:// on the URLs of the universe
UrlPattern(u) == u \in {"http://x", "http://y", "https://x"}

\* str.lower() on the response formats of the universe
Lower(s) ==
    IF s = "STATIC_LIST" THEN "static_list"
    ELSE IF s = "Static_Dict" THEN "static_dict" ELSE s

Category(cat_data) ==
    IF /\ {"id", "name", "category"} \subseteq DOMAIN cat_data
       /\ Len(cat_data.id) \in 1..IdMaxLen
       /\ IdPattern(cat_data.id)
       /\ Len(cat_data.name) \in 1..FieldMaxLen
       /\ Len(cat_data.category) \in 1..FieldMaxLen
    THEN [ok |-> TRUE,
          v |-> [id |-> cat_data.id, name |-> cat_data.name,
                 category |-> cat_data.category,
                 icon |-> Get(cat_data, "icon", None)]]
    ELSE [ok |-> FALSE, v |-> Null]

RequestConfig(d) ==
    LET url == Get(d, "url", None)
        method == Get(d, "method", "GET")
    IN  IF /\ (url = None \/ url = "" \/ UrlPattern(url))
           /\ method \in {"GET", "POST"}
        THEN [ok |-> TRUE, v |-> [url |-> url, method |-> method]]
        ELSE [ok |-> FALSE, v |-> Null]

SingleFields == {"image", "title", "description", "thumbnail", "width",
                 "height", "author", "source", "tags", "date"}
MappingStrFields == SingleFields \cup {"items"}

\* getattr(self, field) is truthy: neither None nor ""
Truthy(m, f) == m[f] # None /\ m[f] # ""

FieldMappingOf(d) ==
    [str |-> [f \in MappingStrFields |-> Get(d, f, None)],
     item_mapping |-> Get(d, "item_mapping", Null)]

validate_mapping(m) ==
    LET item_truthy == m.item_mapping # Null /\ DOMAIN m.item_mapping # {}
        has_single_fields == \E f \in {"image", "title", "description"} : Truthy(m.str, f)
        has_multi_fields == m.str["items"] # None
    IN  IF (~ \E f \in MappingStrFields : Truthy(m.str, f)) /\ ~item_truthy
        THEN TRUE
        ELSE /\ ~(has_single_fields /\ has_multi_fields)
             /\ ~(has_multi_fields /\ ~item_truthy)
             /\ ~(item_truthy /\ "image" \notin DOMAIN m.item_mapping)

FieldMapping(d) ==
    LET m == FieldMappingOf(d)
    IN  IF validate_mapping(m) THEN [ok |-> TRUE, v |-> m] ELSE [ok |-> FALSE, v |-> Null]

\* variant: the legacy `type` key is not consulted
is_static_format_only(response) ==
    Lower(Get(response, "format", "")) \in {"static_list", "static_dict"}

is_static(response) ==
    LET fmt == Get(response, "format", "")
        response_format == IF fmt # "" THEN fmt ELSE Get(response, "type", "")
    IN  Lower(response_format) \in {"static_list", "static_dict"}

\* WallpaperAPI(**api_data): field validation, then validate_request_presence
WallpaperAPI(api_data) ==
    LET request == IF "request" \in DOMAIN api_data
                   THEN RequestConfig(api_data.request) ELSE [ok |-> TRUE, v |-> Null]
        mapping == IF "mapping" \in DOMAIN api_data
                   THEN FieldMapping(api_data.mapping) ELSE [ok |-> TRUE, v |-> Null]
        response == Get(api_data, "response", EmptyDict)
        static == is_static(response)
        fields_ok == /\ "name" \in DOMAIN api_data
                     /\ Len(api_data.name) \in 1..NameMaxLen
                     /\ "categories" \in DOMAIN api_data
                     /\ Len(api_data.categories) >= 1
                     /\ request.ok
                     /\ mapping.ok
        presence_ok == /\ ~(request.v = Null /\ ~static)
                       /\ ~(mapping.v = Null /\ ~static)
    IN  IF fields_ok /\ presence_ok
        THEN [ok |-> TRUE,
              v |-> [name |-> api_data.name,
                     categories |-> api_data.categories,
                     request |-> request.v,
                     response |-> response,
                     mapping |-> IF mapping.v = Null THEN FieldMappingOf(EmptyDict)
                                 ELSE mapping.v,
                     logo |-> Get(api_data, "logo", None),
                     category_icons |-> Get(api_data, "category_icons", Null),
                     inherit |-> Get(api_data, "inherit", None)]]
        ELSE [ok |-> FALSE, v |-> Null]

WallpaperSource(metadata, cfg, cats, api_list, path) ==
    [metadata |-> metadata, config |-> cfg, categories |-> cats,
     apis |-> api_list, source_path |-> path]

(***************************************************************************)
(* Parser helpers (parser.py)                                              *)
(***************************************************************************)
SCHEME == "littletree_wallpaper_source_v3"

\* Path.glob("<dir>/*<suffix>") restricted to files, in listing order
GlobFiles(tree, dir, suffix) ==
    SelectSeq(PathOrder, LAMBDA p : Exists(tree, p) /\ PathDir(p) = dir
                                     /\ PathSuffix(p) = suffix)

\* iterating a str yields its characters
Chars(s) ==
    CASE s = "apis/a.toml" -> <<"a", "p", "i", "s", "/", "a", ".", "t", "o", "m", "l">>
      [] s = "extra/x.toml" -> <<"e", "x", "t", "r", "a", "/", "x", ".", "t", "o", "m", "l">>
      [] s = "extra/*.toml" -> <<"e", "x", "t", "r", "a", "/", "*", ".", "t", "o", "m", "l">>
      [] OTHER -> <<s>>

\* `for pattern in api_patterns`: the entries of a list, the characters of a str
IterPatterns(metadata) ==
    IF "apis" \notin DOMAIN metadata THEN <<>>
    ELSE IF metadata.apis.str THEN Chars(metadata.apis.v[1])
    ELSE metadata.apis.v

\* (dir_path / pattern) is an existing directory: "/" is the file-system
\* root, "." the source root itself
PatternIsDir(tree, pattern) ==
    \/ pattern \in {"/", "."}
    \/ pattern \in {"apis", "cats", "extra", "parents"} /\ IsDir(tree, pattern)

\* dir_path.glob(pattern) for a pattern naming an existing directory: pathlib
\* rejects "/" and "."; a directory name yields the directory, which is no file
GlobOfDir(pattern) ==
    CASE pattern = "/" -> Exc("NotImplementedError", <<Diag("glob", pattern, "")>>)
      [] pattern = "." -> Exc("IndexError", <<Diag("glob", pattern, "")>>)
      [] OTHER -> NoExc

\* parser.py 250-259
RECURSIVE discover_api_files(_, _, _)
discover_api_files(tree, patterns, api_files) ==
    IF patterns = <<>> THEN [exc |-> NoExc, files |-> api_files]
    ELSE LET pattern == Head(patterns)
         IN  IF Exists(tree, pattern)
             THEN discover_api_files(tree, Tail(patterns), Append(api_files, pattern))
             ELSE IF PatternIsDir(tree, pattern) /\ Raised(GlobOfDir(pattern))
             THEN [exc |-> GlobOfDir(pattern), files |-> api_files]
             ELSE discover_api_files(tree, Tail(patterns), api_files)

\* parser.py 246-263
api_files_of(tree, metadata) ==
    LET found == discover_api_files(tree, IterPatterns(metadata), <<>>)
    IN  IF Raised(found.exc) \/ found.files # <<>> THEN found
        ELSE [exc |-> NoExc, files |-> GlobFiles(tree, "apis", ".toml")]

_validate_required_files(tree) ==
    IF ~Exists(tree, "source.toml")
    THEN Exc("FileNotFoundError", <<Diag("required_missing", "source.toml", "")>>)
    ELSE IF ~Exists(tree, "categories.toml")
    THEN Exc("FileNotFoundError", <<Diag("required_missing", "categories.toml", "")>>)
    ELSE IF ~IsDir(tree, "apis")
    THEN Exc("FileNotFoundError", <<Diag("no_apis_dir", "apis", "")>>)
    ELSE IF GlobFiles(tree, "apis", ".toml") = <<>>
    THEN Exc("FileNotFoundError", <<Diag("no_api_toml", "apis", "")>>)
    ELSE NoExc

_parse_toml_file(tree, file_path) ==
    IF Exists(tree, file_path) /\ tree[file_path].ok
    THEN [exc |-> NoExc, data |-> tree[file_path].data]
    ELSE [exc |-> Exc("ParseError", <<Diag("toml_failed", file_path, "")>>),
          data |-> EmptyDict]

\* parser.py 218-230, folded over the entries
RECURSIVE _parse_categories(_, _, _, _)
_parse_categories(entries, is_strict, cats, errs) ==
    IF entries = <<>> THEN [exc |-> NoExc, categories |-> cats, errors |-> errs]
    ELSE LET category == Category(Head(entries))
         IN  IF category.ok
             THEN _parse_categories(Tail(entries), is_strict, Append(cats, category.v), errs)
             ELSE IF is_strict
             THEN [exc |-> Exc("pydantic.ValidationError",
                               <<Diag("category_invalid", Get(Head(entries), "id", None), "")>>),
                   categories |-> cats, errors |-> errs]
             ELSE _parse_categories(Tail(entries), is_strict, cats,
                      Append(errs, Diag("category_failed",
                                        Get(Head(entries), "id", None), "")))

\* Path(current_file).parent / inherit_path
InheritFile(current_file, inherit_path) ==
    IF inherit_path = "../parents/p.toml" THEN "parents/p.toml" ELSE inherit_path

\* variant: a missing parent goes unreported
_load_inherited_api_silent(tree, inherit_path, current_file) ==
    LET inherit_file == InheritFile(current_file, inherit_path)
    IN  IF Exists(tree, inherit_file)
        THEN LET loaded == _parse_toml_file(tree, inherit_file)
             IN  IF Raised(loaded.exc)
                 THEN [data |-> Null,
                       warnings |-> <<Diag("inherit_failed", inherit_path, loaded.exc.type)>>]
                 ELSE [data |-> loaded.data, warnings |-> <<>>]
        ELSE [data |-> Null, warnings |-> <<>>]

_load_inherited_api(tree, inherit_path, current_file) ==
    LET inherit_file == InheritFile(current_file, inherit_path)
    IN  IF Exists(tree, inherit_file)
        THEN LET loaded == _parse_toml_file(tree, inherit_file)
             IN  IF Raised(loaded.exc)
                 THEN [data |-> Null,
                       warnings |-> <<Diag("inherit_failed", inherit_path, loaded.exc.type)>>]
                 ELSE [data |-> loaded.data, warnings |-> <<>>]
        ELSE [data |-> Null, warnings |-> <<Diag("inherit_missing", inherit_path, "")>>]

\* a value has a callable .dict attribute; what rtoml returns is a builtin dict
HasDictMethod(v) == FALSE

\* {**inherited_api.dict(), **api_data} without the `inherit` key
MergeData(inherited, api_data) ==
    [k \in (DOMAIN inherited \cup DOMAIN api_data) \ {"inherit"} |->
        IF k \in DOMAIN api_data THEN api_data[k] ELSE inherited[k]]

_parse_api(tree, api_data, file_path) ==
    LET inherited == IF "inherit" \in DOMAIN api_data
                     THEN _load_inherited_api(tree, api_data.inherit, file_path)
                     ELSE [data |-> Null, warnings |-> <<>>]
        merging == inherited.data # Null /\ DOMAIN inherited.data # {}
    IN  IF merging /\ ~HasDictMethod(inherited.data)
        THEN [exc |-> Exc("AttributeError", <<Diag("no_attribute", "dict", "")>>),
              api |-> Null, warnings |-> inherited.warnings]
        ELSE LET data == IF merging THEN MergeData(inherited.data, api_data) ELSE api_data
                 api == WallpaperAPI(data)
             IN  IF api.ok
                 THEN [exc |-> NoExc, api |-> api.v, warnings |-> inherited.warnings]
                 ELSE [exc |-> Exc("ParseError", <<Diag("api_invalid", file_path, "")>>),
                       api |-> Null, warnings |-> inherited.warnings]

\* parser.py 267-269: one API file
parse_api_file(tree, api_file) ==
    LET loaded == _parse_toml_file(tree, api_file)
    IN  IF Raised(loaded.exc)
        THEN [exc |-> loaded.exc, api |-> Null, warnings |-> <<>>]
        ELSE _parse_api(tree, loaded.data, api_file)

\* variant: the first failing file ends the loop in both modes
RECURSIVE parse_api_files_abort(_, _, _, _, _, _)
parse_api_files_abort(tree, files, is_strict, api_list, errs, warns) ==
    IF files = <<>>
    THEN [exc |-> NoExc, apis |-> api_list, errors |-> errs, warnings |-> warns]
    ELSE LET r == parse_api_file(tree, Head(files))
         IN  IF ~Raised(r.exc)
             THEN parse_api_files_abort(tree, Tail(files), is_strict,
                                        Append(api_list, r.api), errs, warns \o r.warnings)
             ELSE IF is_strict
             THEN [exc |-> Exc("ParseError",
                               <<Diag("api_file_failed", Head(files), r.exc.type)>>),
                   apis |-> api_list, errors |-> errs, warnings |-> warns \o r.warnings]
             ELSE [exc |-> NoExc, apis |-> api_list,
                   errors |-> Append(errs, Diag("api_file_failed", Head(files), r.exc.type)),
                   warnings |-> warns \o r.warnings]

\* parser.py 265-276, folded over the discovered files
RECURSIVE parse_api_files(_, _, _, _, _, _)
parse_api_files(tree, files, is_strict, api_list, errs, warns) ==
    IF files = <<>>
    THEN [exc |-> NoExc, apis |-> api_list, errors |-> errs, warnings |-> warns]
    ELSE LET r == parse_api_file(tree, Head(files))
         IN  IF ~Raised(r.exc)
             THEN parse_api_files(tree, Tail(files), is_strict, Append(api_list, r.api),
                                  errs, warns \o r.warnings)
             ELSE IF is_strict
             THEN [exc |-> Exc("ParseError",
                               <<Diag("api_file_failed", Head(files), r.exc.type)>>),
                   apis |-> api_list, errors |-> errs, warnings |-> warns \o r.warnings]
             ELSE parse_api_files(tree, Tail(files), is_strict, api_list,
                      Append(errs, Diag("api_file_failed", Head(files), r.exc.type)),
                      warns \o r.warnings)

_parse_apis(tree, metadata, is_strict) ==
    LET found == api_files_of(tree, metadata)
    IN  IF Raised(found.exc)
        THEN [exc |-> found.exc, apis |-> <<>>, errors |-> <<>>, warnings |-> <<>>]
        ELSE parse_api_files(tree, found.files, is_strict, <<>>, <<>>, <<>>)

\* variant: only the first missing id of an API is reported
missing_ids_first(api, ids, category_ids) ==
    LET bad == SelectSeq(ids, LAMBDA id : id \notin category_ids)
    IN  IF bad = <<>> THEN <<>> ELSE <<Diag("category_ref", api.name, bad[1])>>

\* parser.py 339-347: one message per (api, missing id), in order
RECURSIVE missing_ids(_, _, _)
missing_ids(api, ids, category_ids) ==
    IF ids = <<>> THEN <<>>
    ELSE (IF Head(ids) \notin category_ids
          THEN <<Diag("category_ref", api.name, Head(ids))>> ELSE <<>>)
         \o missing_ids(api, Tail(ids), category_ids)

\* variant: no reference is looked at
_validate_category_references_none(api_list, cats) == <<>>

\* parser.py 328-347
RECURSIVE _validate_category_references(_, _)
_validate_category_references(api_list, cats) ==
    IF api_list = <<>> THEN <<>>
    ELSE missing_ids(Head(api_list), Head(api_list).categories,
                     {cats[i].id : i \in DOMAIN cats})
         \o _validate_category_references(Tail(api_list), cats)

\* variant: any declared scheme is accepted
check_scheme_any(metadata) == Get(metadata, "scheme", None) # None

\* parser.py 125
check_scheme(metadata) == Get(metadata, "scheme", None) = SCHEME

\* parser.py 359-381 on a file whose suffix is .ltws
_validate_ltws_format(ltws) ==
    /\ ltws.tar
    /\ {"source.toml", "categories.toml"} \subseteq {p \in Paths : Exists(ltws.members, p)}
    /\ \E p \in Paths : Exists(ltws.members, p) /\ PathDir(p) = "apis"

(***************************************************************************)
(* The source trees of the model                                           *)
(***************************************************************************)
CatC1 == [id |-> "c1", name |-> "One", category |-> "g"]
CatC2 == [id |-> "c2", name |-> "Two", category |-> "g"]
CatBad == [id |-> "Bad-Id", name |-> "Bad", category |-> "g"]
CatEntries == {CatC1, CatC2, CatBad}

ApiPlain ==
    [name |-> "A", categories |-> <<"c1">>,
     request |-> [url |-> "http://x"], mapping |-> [image |-> "p"]]
ApiTwoRefs ==
    [name |-> "B", categories |-> <<"c1", "c2">>,
     request |-> [url |-> "https://x", method |-> "POST"],
     mapping |-> [items |-> "list", item_mapping |-> [image |-> "i"]]]
ApiNoRequest ==
    [name |-> "N", categories |-> <<"c1">>, mapping |-> [image |-> "p"]]
ApiStatic ==
    [name |-> "S", categories |-> <<"c2">>, response |-> [format |-> "STATIC_LIST"]]
ApiExtra ==
    [name |-> "X", categories |-> <<"c1">>,
     request |-> [url |-> "http://y"], mapping |-> [image |-> "x"]]
ChildFull ==
    [inherit |-> "../parents/p.toml", name |-> "C", categories |-> <<"c1">>,
     request |-> [url |-> "http://y"], mapping |-> [image |-> "c"]]
ChildPartial ==
    [inherit |-> "../parents/p.toml", mapping |-> [image |-> "c"]]
ParentFull ==
    [name |-> "A", categories |-> <<"c1">>,
     request |-> [url |-> "http://x"], mapping |-> [image |-> "p"]]

Patterns == {"apis/a.toml", "extra/x.toml", "extra/*.toml"}

ApisList(v) == [str |-> FALSE, v |-> v]
ApisStr(s) == [str |-> TRUE, v |-> <<s>>]

\* what each file, and each key of source.toml, can be
Options ==
    [src |-> {"ok", "absent", "unreadable"},
     scheme |-> {SCHEME, "littletree_wallpaper_source_v2", None},
     apis_field |-> {Null} \cup {ApisStr(s) : s \in Patterns}
                    \cup {ApisList(v) : v \in SeqsUpTo(Patterns, MaxPatterns)},
     cat_decl |-> {"categories.toml", "cats/c.toml", None},
     cats |-> {Absent, Unreadable}
              \cup {Toml([categories |-> v]) : v \in SeqsUpTo(CatEntries, MaxCategories)},
     cats_c |-> {Absent, Toml([categories |-> <<CatC1, CatC2>>])},
     cfg |-> {Absent, Unreadable, Toml([theme |-> "dark"])},
     a |-> {Absent, Unreadable, Toml(ApiPlain), Toml(ApiNoRequest),
            Toml(ChildFull), Toml(ChildPartial)},
     b |-> {Absent, Unreadable, Toml(ApiTwoRefs), Toml(ApiStatic)},
     x |-> {Absent, Toml(ApiExtra)},
     parent |-> {Absent, Unreadable, Toml(EmptyDict), Toml(ParentFull)},
     readme |-> {Absent, Unreadable},
     icon |-> {Absent, Unreadable}]

Dims == DOMAIN Options

BaseWorld ==
    [src |-> "ok", scheme |-> SCHEME, apis_field |-> Null,
     cat_decl |-> "categories.toml",
     cats |-> Toml([categories |-> <<CatC1>>]),
     cats_c |-> Toml([categories |-> <<CatC1, CatC2>>]),
     cfg |-> Toml([theme |-> "dark"]),
     a |-> Toml(ApiPlain), b |-> Absent, x |-> Toml(ApiExtra),
     parent |-> Toml(ParentFull), readme |-> Absent, icon |-> Absent]

\* the worlds of W, and those that differ from one of them in one file or key
Deviate(W) ==
    W \cup UNION {{[w EXCEPT ![d] = v] : w \in W, v \in Options[d]} : d \in Dims}

\* every world that differs from BaseWorld in at most two files or keys
Worlds == Deviate(Deviate({BaseWorld}))

MetaOf(w) ==
    LET keys == {k \in {"scheme", "apis", "categories"} :
                    CASE k = "scheme" -> w.scheme # None
                      [] k = "apis" -> w.apis_field # Null
                      [] k = "categories" -> w.cat_decl # None}
    IN  [k \in keys |-> CASE k = "scheme" -> w.scheme
                          [] k = "apis" -> w.apis_field
                          [] k = "categories" -> w.cat_decl]

SourceFile(w) ==
    CASE w.src = "absent" -> Absent
      [] w.src = "unreadable" -> Unreadable
      [] OTHER -> Toml(MetaOf(w))

TreeOf(w) ==
    [p \in Paths |->
        CASE p = "source.toml" -> SourceFile(w)
          [] p = "categories.toml" -> w.cats
          [] p = "cats/c.toml" -> w.cats_c
          [] p = "config.toml" -> w.cfg
          [] p = "apis/a.toml" -> w.a
          [] p = "apis/b.toml" -> w.b
          [] p = "apis/readme.txt" -> w.readme
          [] p = "extra/x.toml" -> w.x
          [] p = "parents/p.toml" -> w.parent
          [] p = "icon.png" -> w.icon
          [] OTHER -> Absent]

EmptyTree == [p \in Paths |-> Absent]
NoArchive == [exists |-> FALSE, tar |-> FALSE, members |-> EmptyTree]

(***************************************************************************)
(* Packager (packager.py)                                                  *)
(***************************************************************************)
\* packager.py 152-177, on the suffixes of the universe
ForbiddenExtensions == {".png"}

\* source_dir.glob(pattern) restricted to .toml files, in listing order
PatternFiles(tree, pattern) ==
    SelectSeq(PathOrder,
              LAMBDA p : /\ Exists(tree, p)
                         /\ PathSuffix(p) = ".toml"
                         /\ \/ p = pattern
                            \/ pattern = "extra/*.toml" /\ PathDir(p) = "extra")

RECURSIVE glob_patterns(_, _)
glob_patterns(tree, patterns) ==
    IF patterns = <<>> THEN <<>>
    ELSE PatternFiles(tree, Head(patterns)) \o glob_patterns(tree, Tail(patterns))

\* packager.py 121-132 and 259-269: `apis` or [], a str wrapped into a list
packager_api_files(tree, source_data) ==
    LET api_patterns == IF "apis" \in DOMAIN source_data THEN source_data.apis.v ELSE <<>>
        api_files == glob_patterns(tree, api_patterns)
    IN  IF api_files # <<>> THEN api_files
        ELSE IF IsDir(tree, "apis") THEN GlobFiles(tree, "apis", ".toml") ELSE <<>>

\* source_data.get(key) or default
GetOr(d, k, default) == IF k \in DOMAIN d /\ d[k] # "" THEN d[k] ELSE default

\* packager.py 179-185: the tree's files, in listing order
_check_resource_files(tree) ==
    LET forbidden == SelectSeq(PathOrder,
                               LAMBDA p : Exists(tree, p)
                                          /\ PathSuffix(p) \in ForbiddenExtensions)
    IN  [i \in 1..Len(forbidden) |-> Diag("forbidden_file", forbidden[i], "")]

\* the values of the logo = "..." and icon = "..." literals of a TOML text
RECURSIVE entry_icons(_)
entry_icons(entries) ==
    IF entries = <<>> THEN <<>>
    ELSE (IF "icon" \in DOMAIN Head(entries) THEN <<Head(entries).icon>> ELSE <<>>)
         \o entry_icons(Tail(entries))

\* (the `categories` of an API descriptor are ids, those of a categories file tables)
IconLiterals(path, file) ==
    IF ~file.ok THEN <<>>
    ELSE (IF "logo" \in DOMAIN file.data THEN <<file.data.logo>> ELSE <<>>)
         \o (IF path \in {"categories.toml", "cats/c.toml"}
             THEN entry_icons(Get(file.data, "categories", <<>>)) ELSE <<>>)

\* startswith("data:"), startswith("http://"), startswith("https://")
IconPrefixOk(v) == v \in {"data:image/png;base64,AAAA", "http://x", "https://x", "http://y"}

RECURSIVE _check_icon_files(_, _)
_check_icon_files(tree, files) ==
    IF files = <<>> THEN <<>>
    ELSE LET bad == SelectSeq(IconLiterals(Head(files), tree[Head(files)]),
                              LAMBDA v : ~IconPrefixOk(v))
         IN  [i \in 1..Len(bad) |-> Diag("local_icon", Head(files), bad[i])]
             \o _check_icon_files(tree, Tail(files))

TomlFiles(tree) ==
    SelectSeq(PathOrder, LAMBDA p : Exists(tree, p) /\ PathSuffix(p) = ".toml")

\* packager.py 94-142
_validate_source_directory(tree) ==
    IF ~Exists(tree, "source.toml")
    THEN [valid |-> FALSE, errors |-> <<Diag("required_missing", "source.toml", "")>>]
    ELSE IF ~tree["source.toml"].ok
    THEN [valid |-> FALSE, errors |-> <<Diag("toml_failed", "source.toml", "")>>]
    ELSE LET source_data == tree["source.toml"].data
             categories_rel == GetOr(source_data, "categories", None)
             errs == (IF categories_rel = None
                      THEN <<Diag("missing_field", "categories", "")>>
                      ELSE IF ~Exists(tree, categories_rel)
                      THEN <<Diag("required_missing", categories_rel, "")>>
                      ELSE <<>>)
                     \o (IF packager_api_files(tree, source_data) = <<>>
                         THEN <<Diag("no_api_files", "apis", "")>> ELSE <<>>)
                     \o _check_resource_files(tree)
                     \o _check_icon_files(tree, TomlFiles(tree))
         IN  [valid |-> errs = <<>>, errors |-> errs]

\* the files a set of paths keeps of a tree
Copy(tree, paths) == [p \in Paths |-> IF p \in paths THEN tree[p] ELSE Absent]

\* packager.py 231-275: the staged tree
_prepare_package_content(tree, is_strict) ==
    IF ~Exists(tree, "source.toml")
    THEN [exc |-> Exc("OSError", <<Diag("read_failed", "source.toml", "")>>),
          staged |-> EmptyTree]
    ELSE IF ~tree["source.toml"].ok /\ is_strict
    THEN [exc |-> Exc("ValidationError", <<Diag("toml_failed", "source.toml", "")>>),
          staged |-> EmptyTree]
    ELSE LET source_data == IF tree["source.toml"].ok THEN tree["source.toml"].data
                            ELSE EmptyDict
             categories_rel == GetOr(source_data, "categories", "categories.toml")
             config_rel == GetOr(source_data, "config", "config.toml")
             api_files == packager_api_files(tree, source_data)
         IN  [exc |-> NoExc,
              staged |-> Copy(tree, {"source.toml"}
                                    \cup {p \in {categories_rel, config_rel} : Exists(tree, p)}
                                    \cup SeqToSet(api_files))]

\* packager.py 285-342: manifest.json joins the staged tree
_generate_manifest(staged) == [staged EXCEPT !["manifest.json"] = Unreadable]

\* packager.py 356-360
_create_ltws_file(staged) == [exists |-> TRUE, tar |-> TRUE, members |-> staged]

\* variant: the written archive is not looked at again
_validate_ltws_file_skipped(ltws) == TRUE

\* packager.py 372-410 on a file whose suffix is .ltws
_validate_ltws_file(ltws) ==
    LET member_names == {p \in Paths : Exists(ltws.members, p)}
    IN  /\ ltws.exists
        /\ ltws.tar
        /\ "source.toml" \in member_names
        /\ \E p \in member_names : PathDir(p) = "apis" /\ PathSuffix(p) = ".toml"
        /\ \/ ~ltws.members["source.toml"].ok
           \/ GetOr(ltws.members["source.toml"].data, "categories", "categories.toml")
                  \in member_names

(***************************************************************************)
(* Validator (validator.py)                                                *)
(*                                                                         *)
(* The sources of the model have no parameters, no request timeout and no  *)
(* categories_template / categories_level_icons (the parser never sets     *)
(* them), so the checks of those are left out.                             *)
(***************************************************************************)
RECURSIVE Flatten(_)
Flatten(seqs) == IF seqs = <<>> THEN <<>> ELSE Head(seqs) \o Flatten(Tail(seqs))

\* ^(?=.{3,255}$)(?=.*\.)[a-z0-9_]+(\.[a-z0-9_]+)+$ on the identifiers of the universe
IdentifierPattern(identifier) == identifier = "com.x"

\* ^\d+\.\d+\.\d+$ on the versions of the universe
VersionPattern(version) == version = "1.0.0"

\* icon.startswith("data:image/") on the icon values of the universe
StartsWithDataImage(icon) == icon \in {"data:image/png;base64,AAAA", "data:image/png,AAAA"}

\* ";base64," in icon
ContainsBase64(icon) ==
    icon \in {"data:image/png;base64,AAAA", "data:text/plain;base64,AAAA"}

\* variant: every data:image/ value passes
_validate_icon_any_data(icon, context) ==
    IF StartsWithDataImage(icon) THEN <<>>
    ELSE IF ~UrlPattern(icon) THEN <<Diag("icon_invalid", context, "")>> ELSE <<>>

\* validator.py 232-241: the errors it appends
_validate_icon(icon, context) ==
    IF StartsWithDataImage(icon)
    THEN IF ~ContainsBase64(icon) THEN <<Diag("icon_base64", context, "")>> ELSE <<>>
    ELSE IF ~UrlPattern(icon) THEN <<Diag("icon_invalid", context, "")>> ELSE <<>>

\* a value is truthy: neither None nor ""
IsSet(v) == v # None /\ v # ""

\* validator.py 24-55
_validate_metadata(metadata) ==
    LET required_fields == <<"scheme", "identifier", "name", "version", "categories", "apis">>
        absent == SelectSeq(required_fields, LAMBDA field : field \notin DOMAIN metadata)
        identifier == Get(metadata, "identifier", "")
        version == Get(metadata, "version", "")
        name == Get(metadata, "name", "")
        logo == Get(metadata, "logo", None)
    IN  [errors |->
            [i \in 1..Len(absent) |-> Diag("missing_field", absent[i], "")]
            \o (IF Get(metadata, "scheme", None) # SCHEME
                THEN <<Diag("bad_scheme", "", "")>> ELSE <<>>)
            \o (IF ~IdentifierPattern(identifier)
                THEN <<Diag("bad_identifier", identifier, "")>> ELSE <<>>)
            \o (IF ~VersionPattern(version)
                THEN <<Diag("bad_version", version, "")>> ELSE <<>>)
            \o (IF IsSet(logo) THEN _validate_icon(logo, "metadata.logo") ELSE <<>>),
         warnings |->
            IF Len(name) < 2 \/ Len(name) > 32
            THEN <<Diag("name_length", ToString(Len(name)), "")>> ELSE <<>>]

\* validator.py 57-69
_validate_categories(cats) ==
    Flatten([i \in DOMAIN cats |->
        (IF \E j \in 1..(i - 1) : cats[j].id = cats[i].id
         THEN <<Diag("duplicate_id", cats[i].id, "")>> ELSE <<>>)
        \o (IF IsSet(cats[i].icon)
            THEN _validate_icon(cats[i].icon,
                                "categories[" \o ToString(i - 1) \o "].icon")
            ELSE <<>>)])

\* variant: the legacy `type` key is not consulted
_is_static_response_format_only(api) ==
    Lower(Get(api.response, "format", "")) \in {"static_list", "static_dict"}

\* validator.py 152-168
_is_static_response(api) ==
    LET response_cfg == api.response
        fmt == Get(response_cfg, "format", "")
        response_format == IF fmt # "" THEN fmt ELSE Get(response_cfg, "type", "")
    IN  Lower(response_format) \in {"static_list", "static_dict"}

\* validator.py 192-206
_validate_request(request, api_name) ==
    (IF ~IsSet(request.url) THEN <<Diag("no_url", api_name, "")>>
     ELSE IF ~UrlPattern(request.url) THEN <<Diag("bad_url", api_name, "")>> ELSE <<>>)
    \o (IF request.method \notin {"GET", "POST"}
        THEN <<Diag("bad_method", api_name, "")>> ELSE <<>>)

\* validator.py 208-230
_validate_mapping(mapping, api_name, static) ==
    LET has_single == \E f \in {"image", "title", "description", "thumbnail",
                                "width", "height"} : Truthy(mapping.str, f)
        has_multi == mapping.str["items"] # None
        item_mapping == mapping.item_mapping # Null /\ DOMAIN mapping.item_mapping # {}
    IN  IF static /\ ~has_single /\ ~has_multi /\ ~item_mapping THEN <<>>
        ELSE (IF ~has_single /\ ~has_multi
              THEN <<Diag("mapping_incomplete", api_name, "")>> ELSE <<>>)
             \o (IF has_single /\ has_multi
                 THEN <<Diag("mapping_both", api_name, "")>> ELSE <<>>)
             \o (IF has_multi /\ ~item_mapping
                 THEN <<Diag("mapping_no_item_mapping", api_name, "")>> ELSE <<>>)
             \o (IF item_mapping /\ "image" \notin DOMAIN mapping.item_mapping
                 THEN <<Diag("mapping_no_image", api_name, "")>> ELSE <<>>)

\* the keys of a category_icons dict, in insertion order
CategoryIdOrder == <<"c1", "c2", "foo">>
Keys(d) == SelectSeq(CategoryIdOrder, LAMBDA k : k \in DOMAIN d)

\* validator.py 111-150
_validate_api(api, all_categories) ==
    LET all_category_ids == {all_categories[i].id : i \in DOMAIN all_categories}
        static == _is_static_response(api)
        icons == IF api.category_icons = Null THEN <<>> ELSE Keys(api.category_icons)
    IN  (IF api.name = "" \/ Len(api.name) > NameMaxLen
         THEN <<Diag("bad_api_name", api.name, "")>> ELSE <<>>)
        \o (IF api.categories = <<>>
            THEN <<Diag("no_categories", api.name, "")>> ELSE <<>>)
        \o Flatten([i \in DOMAIN icons |->
               (IF icons[i] \notin all_category_ids
                THEN <<Diag("category_icon_ref", api.name, icons[i])>> ELSE <<>>)
               \o _validate_icon(api.category_icons[icons[i]],
                                 "API '" \o api.name \o "'.category_icons['"
                                 \o icons[i] \o "']")])
        \o (IF IsSet(api.logo)
            THEN _validate_icon(api.logo, "API '" \o api.name \o "'.logo") ELSE <<>>)
        \o (IF api.request # Null THEN _validate_request(api.request, api.name)
            ELSE IF ~static THEN <<Diag("no_request", api.name, "")>> ELSE <<>>)
        \o (IF api.mapping # Null THEN _validate_mapping(api.mapping, api.name, static)
            ELSE IF ~static THEN <<Diag("no_mapping", api.name, "")>> ELSE <<>>)

\* variant: an API's repeated missing id is reported once
validate_categories_once(source) ==
    LET category_ids == {source.categories[i].id : i \in DOMAIN source.categories}
    IN  Flatten([i \in DOMAIN source.apis |->
            LET api == source.apis[i]
                bad == SelectSeq(api.categories, LAMBDA id : id \notin category_ids)
                first == SelectSeq([k \in DOMAIN bad |-> k],
                                   LAMBDA k : \A j \in 1..(k - 1) : bad[j] # bad[k])
            IN  [n \in DOMAIN first |-> Diag("category_ref", api.name, bad[first[n]])]])

\* models.py 307-317: WallpaperSource.validate_categories
validate_categories(source) ==
    LET category_ids == {source.categories[i].id : i \in DOMAIN source.categories}
    IN  Flatten([i \in DOMAIN source.apis |->
            LET api == source.apis[i]
                bad == SelectSeq(api.categories, LAMBDA id : id \notin category_ids)
            IN  [k \in DOMAIN bad |-> Diag("category_ref", api.name, bad[k])]])

\* variant: the lists keep what an earlier call appended
keep(list) == list

\* list.clear()
clear(list) == <<>>

\* validator.py 81-109, on the instance's lists: what they hold when it returns
validate_source(source, errs, warns) ==
    LET meta == _validate_metadata(source.metadata)
    IN  [errors |-> clear(errs)
                    \o meta.errors
                    \o _validate_categories(source.categories)
                    \o Flatten([i \in DOMAIN source.apis |->
                                   _validate_api(source.apis[i], source.categories)])
                    \o validate_categories(source),
         warnings |-> clear(warns) \o meta.warnings]

(***************************************************************************)
(* LTWSParser.parse as a state machine                                     *)
(***************************************************************************)
NoResult == [status |-> "none", exc |-> NoExc, source |-> Null]

\* no constructor has been called, no validator exists
NoCall == [cls |-> "none", data |-> EmptyDict]
NotBuilt == [status |-> "none", v |-> Null]
\* a VariableEngine nothing was registered on and nothing was asked of
EngineIdle ==
    /\ ve_variables = EmptyDict
    /\ ve_call = [op |-> "none", template |-> <<>>, context |-> EmptyDict]
    /\ ve_result = [status |-> "none", pieces |-> <<>>, out |-> "", exc |-> NoExc]

OthersIdle ==
    /\ EngineIdle
    /\ m_call = NoCall
    /\ m_built = NotBuilt
    /\ v_source = Null
    /\ v_other = Null
    /\ v_errors = <<>>
    /\ v_warnings = <<>>
    /\ v_log = <<>>

Init ==
    /\ OthersIdle
    /\ strict \in BOOLEAN
    /\ \/ \E w \in Worlds :
            \/ source_path = "dir" /\ fs = TreeOf(w) /\ archive = NoArchive
            \/ /\ source_path = "ltws" /\ fs = EmptyTree
               /\ archive = [exists |-> TRUE, tar |-> TRUE, members |-> TreeOf(w)]
       \/ /\ source_path = "ltws" /\ fs = EmptyTree
          /\ archive = [exists |-> TRUE, tar |-> FALSE, members |-> EmptyTree]
       \/ /\ source_path \in {"other", "missing"}
          /\ fs = EmptyTree /\ archive = NoArchive
    /\ errors = <<>>
    /\ warnings = <<>>
    /\ pc = "Unopened"
    /\ temp_dir = FALSE
    /\ source_metadata = EmptyDict
    /\ config = EmptyDict
    /\ categories = <<>>
    /\ apis = <<>>
    /\ result = NoResult
    /\ dir_result = NoResult
    /\ pk_strict = TRUE
    /\ pk_errors = <<>>
    /\ pk_warnings = <<>>
    /\ pk_overwrite = FALSE
    /\ pk_result = [status |-> "none", exc |-> NoExc]

\* the tree at dir_path: the source directory, or what extractall wrote
Tree == IF source_path = "ltws" THEN archive.members ELSE fs

\* the innermost message of what parse raised
Cause == result.exc.msg[Len(result.exc.msg)]

\* variant: the extraction directory outlives an exception
Fail_keep_temp(e, errs) ==
    /\ pc' = "Failed"
    /\ UNCHANGED temp_dir
    /\ IF strict
       THEN /\ errors' = errs
            /\ result' = [status |-> "raised", exc |-> e, source |-> Null]
       ELSE /\ errors' = Append(errs, Diag("parse_failed", e.msg[1].kind, e.type))
            /\ result' = [status |-> "raised",
                          exc |-> Exc("WallpaperSourceError",
                                      <<Diag("parse_failed", "", e.type)>> \o e.msg),
                          source |-> Null]

\* an exception leaves parse: the with-block of _parse_ltws_file removes the
\* extraction directory, and `except Exception` (68-73) re-raises it (strict)
\* or records it and raises WallpaperSourceError
Fail(e, errs) ==
    /\ pc' = "Failed"
    /\ temp_dir' = FALSE
    /\ IF strict
       THEN /\ errors' = errs
            /\ result' = [status |-> "raised", exc |-> e, source |-> Null]
       ELSE /\ errors' = Append(errs, Diag("parse_failed", e.msg[1].kind, e.type))
            /\ result' = [status |-> "raised",
                          exc |-> Exc("WallpaperSourceError",
                                      <<Diag("parse_failed", "", e.type)>> \o e.msg),
                          source |-> Null]

\* parser.py 54-67, called on `path`
parse(path) ==
    /\ UNCHANGED strict
    /\ source_metadata' = EmptyDict
    /\ config' = EmptyDict
    /\ categories' = <<>>
    /\ apis' = <<>>
    /\ IF path = "missing"
       THEN /\ pc' = "Failed"
            /\ result' = [status |-> "raised",
                          exc |-> Exc("FileNotFoundError",
                                      <<Diag("not_found", path, "")>>),
                          source |-> Null]
            /\ UNCHANGED <<errors, warnings, temp_dir>>
       ELSE /\ warnings' = <<>>
            /\ IF path = "ltws"
               THEN pc' = "ArchiveSource" /\ errors' = <<>> /\ result' = NoResult
                    /\ UNCHANGED temp_dir
               ELSE IF path = "dir"
               THEN pc' = "DirectorySource" /\ errors' = <<>> /\ result' = NoResult
                    /\ UNCHANGED temp_dir
               ELSE Fail(Exc("InvalidSourceError", <<Diag("unsupported", path, "")>>),
                         <<>>)

\* the caller's first call
call_parse ==
    /\ UNCHANGED other_vars
    /\ pc = "Unopened"
    /\ parse(source_path)
    /\ UNCHANGED <<source_path, fs, archive, dir_result, packager_vars>>

\* parser.py 86-95
_parse_ltws_file ==
    /\ UNCHANGED other_vars
    /\ pc = "ArchiveSource"
    /\ UNCHANGED <<strict, source_path, fs, archive, warnings, source_metadata,
                   config, categories, apis, dir_result, packager_vars>>
    /\ IF _validate_ltws_format(archive)
       THEN pc' = "Extracted" /\ temp_dir' = TRUE /\ UNCHANGED <<errors, result>>
       ELSE Fail(Exc("InvalidSourceError", <<Diag("invalid_ltws", source_path, "")>>),
                 errors)

\* parser.py 98
extracted_required_files ==
    /\ UNCHANGED other_vars
    /\ pc = "Extracted"
    /\ UNCHANGED <<strict, source_path, fs, archive, warnings, source_metadata,
                   config, categories, apis, dir_result, packager_vars>>
    /\ LET e == _validate_required_files(Tree)
       IN  IF Raised(e) THEN Fail(e, errors)
           ELSE pc' = "DirectorySource" /\ UNCHANGED <<errors, temp_dir, result>>

\* parser.py 119
required_files ==
    /\ UNCHANGED other_vars
    /\ pc = "DirectorySource"
    /\ UNCHANGED <<strict, source_path, fs, archive, warnings, source_metadata,
                   config, categories, apis, dir_result, packager_vars>>
    /\ LET e == _validate_required_files(Tree)
       IN  IF Raised(e) THEN Fail(e, errors)
           ELSE pc' = "StructurallyValidated" /\ UNCHANGED <<errors, temp_dir, result>>

\* parser.py 122-134
parse_metadata ==
    /\ UNCHANGED other_vars
    /\ pc = "StructurallyValidated"
    /\ UNCHANGED <<strict, source_path, fs, archive, warnings, categories, apis,
                   dir_result, packager_vars>>
    /\ LET meta == _parse_toml_file(Tree, "source.toml")
           cfg == IF Exists(Tree, "config.toml")
                  THEN _parse_toml_file(Tree, "config.toml")
                  ELSE [exc |-> NoExc, data |-> EmptyDict]
       IN  IF Raised(meta.exc)
           THEN Fail(meta.exc, errors) /\ UNCHANGED <<source_metadata, config>>
           ELSE IF ~check_scheme(meta.data)
           THEN /\ Fail(Exc("InvalidSourceError",
                            <<Diag("bad_scheme", Get(meta.data, "scheme", None), "")>>),
                        errors)
                /\ source_metadata' = meta.data
                /\ UNCHANGED config
           ELSE IF Raised(cfg.exc)
           THEN Fail(cfg.exc, errors) /\ source_metadata' = meta.data /\ UNCHANGED config
           ELSE /\ pc' = "MetadataParsed"
                /\ source_metadata' = meta.data
                /\ config' = cfg.data
                /\ UNCHANGED <<errors, temp_dir, result>>

\* parser.py 137-138
parse_categories ==
    /\ UNCHANGED other_vars
    /\ pc = "MetadataParsed"
    /\ UNCHANGED <<strict, source_path, fs, archive, warnings, source_metadata,
                   config, apis, dir_result, packager_vars>>
    /\ LET categories_data == _parse_toml_file(Tree, "categories.toml")
           parsed == _parse_categories(Get(categories_data.data, "categories", <<>>),
                                       strict, <<>>, <<>>)
       IN  IF Raised(categories_data.exc)
           THEN Fail(categories_data.exc, errors) /\ UNCHANGED categories
           ELSE IF Raised(parsed.exc)
           THEN Fail(parsed.exc, errors \o parsed.errors) /\ UNCHANGED categories
           ELSE /\ pc' = "CategoriesParsed"
                /\ categories' = parsed.categories
                /\ errors' = errors \o parsed.errors
                /\ UNCHANGED <<temp_dir, result>>

\* parser.py 141
parse_apis ==
    /\ UNCHANGED other_vars
    /\ pc = "CategoriesParsed"
    /\ UNCHANGED <<strict, source_path, fs, archive, source_metadata, config,
                   categories, dir_result, packager_vars>>
    /\ LET parsed == _parse_apis(Tree, source_metadata, strict)
       IN  /\ warnings' = warnings \o parsed.warnings
           /\ IF Raised(parsed.exc)
              THEN Fail(parsed.exc, errors \o parsed.errors) /\ UNCHANGED apis
              ELSE /\ pc' = "APIsResolved"
                   /\ apis' = parsed.apis
                   /\ errors' = errors \o parsed.errors
                   /\ UNCHANGED <<temp_dir, result>>

\* parser.py 144-157, and 104-106 for an archive
assemble ==
    /\ UNCHANGED other_vars
    /\ pc = "APIsResolved"
    /\ UNCHANGED <<strict, source_path, fs, archive, warnings, source_metadata,
                   config, categories, apis, dir_result, packager_vars>>
    /\ LET category_errors == _validate_category_references(apis, categories)
       IN  IF category_errors # <<>> /\ strict
           THEN Fail(Exc("ValidationError", category_errors), errors)
           ELSE /\ pc' = "Assembled"
                /\ temp_dir' = FALSE
                /\ result' = [status |-> "returned", exc |-> NoExc,
                              source |-> WallpaperSource(source_metadata, config,
                                                         categories, apis, source_path)]
                /\ UNCHANGED errors

\* variant: an existing output file is overwritten without asking
output_never_collides(ltws, overwrite) == FALSE

\* packager.py 57
output_collides(ltws, overwrite) == ltws.exists /\ ~overwrite

\* variant: a failed validation of the source directory never stops pack
preflight_never_aborts(valid, is_strict) == FALSE

\* packager.py 61-63
preflight_aborts(valid, is_strict) == ~valid /\ is_strict

\* packager.py 53-82: LTWSPackager(strict).pack(source_dir, output_file, overwrite)
\* by the caller that has called parse on the directory, any number of times
pack ==
    /\ UNCHANGED other_vars
    /\ pc \in {"Assembled", "Failed"}
    /\ source_path = "dir"
    /\ UNCHANGED <<source_path, fs, parser_vars, dir_result>>
    /\ \E is_strict \in BOOLEAN, overwrite \in BOOLEAN :
        /\ pk_strict' = is_strict
        /\ pk_overwrite' = overwrite
        /\ IF output_collides(archive, overwrite)
           THEN /\ pk_result' = [status |-> "raised",
                                 exc |-> Exc("PackagingError",
                                             <<Diag("output_exists", "ltws", "")>>)]
                /\ UNCHANGED <<archive, pk_errors, pk_warnings>>
           ELSE LET checked == _validate_source_directory(fs)
                    prepared == _prepare_package_content(fs, is_strict)
                    written == _create_ltws_file(_generate_manifest(prepared.staged))
                IN  /\ pk_errors' = checked.errors
                    /\ pk_warnings' = <<>>
                    /\ IF preflight_aborts(checked.valid, is_strict)
                       THEN /\ pk_result' = [status |-> "raised",
                                             exc |-> Exc("ValidationError", checked.errors)]
                            /\ UNCHANGED archive
                       ELSE IF Raised(prepared.exc)
                       THEN /\ pk_result' = [status |-> "raised", exc |-> prepared.exc]
                            /\ UNCHANGED archive
                       ELSE /\ archive' = written
                            /\ pk_result' =
                                 IF _validate_ltws_file(written)
                                 THEN [status |-> "returned", exc |-> NoExc]
                                 ELSE [status |-> "raised",
                                       exc |-> Exc("PackagingError",
                                                   <<Diag("self_check", "ltws", "")>>)]

\* the caller parses the archive that pack returned
call_parse_packed ==
    /\ UNCHANGED other_vars
    /\ pc = "Assembled"
    /\ source_path = "dir"
    /\ pk_result.status = "returned"
    /\ source_path' = "ltws"
    /\ dir_result' = result
    /\ parse("ltws")
    /\ UNCHANGED <<fs, archive, packager_vars>>

\* the caller's next call on the same parser names a path that does not exist
call_parse_missing ==
    /\ UNCHANGED other_vars
    /\ pc \in {"Assembled", "Failed"}
    /\ source_path \in {"dir", "ltws"}
    /\ pk_result.status = "none"
    /\ source_path' = "missing"
    /\ parse("missing")
    /\ UNCHANGED <<fs, archive, dir_result, packager_vars>>

(***************************************************************************)
(* The constructors of models.py, called on keyword data                   *)
(***************************************************************************)
SinglePart ==
    {[f \in S |-> "v"] : S \in {T \in SUBSET SingleFields : Cardinality(T) <= MaxPopulated}}
    \cup {[image |-> ""]}
ItemsPart == {EmptyDict, [items |-> ""], [items |-> "y"]}
ItemMappingPart ==
    {EmptyDict, [item_mapping |-> EmptyDict], [item_mapping |-> [title |-> "t"]],
     [item_mapping |-> [image |-> "i"]], [item_mapping |-> [image |-> "i", title |-> "t"]]}
MappingInputs == {a @@ b @@ c : a \in SinglePart, b \in ItemsPart, c \in ItemMappingPart}

Formats == {"json", "image_url", "static_list", "static_dict", "STATIC_LIST", "Static_Dict"}
RequestPart == {EmptyDict, [request |-> [url |-> "http://x"]]}
MappingPart == {EmptyDict, [mapping |-> [image |-> "p"]],
                [mapping |-> [image |-> "p", items |-> "y"]]}
ResponsePart ==
    {EmptyDict, [response |-> EmptyDict],
     [response |-> [format |-> "json", type |-> "static_list"]],
     [response |-> [format |-> "", type |-> "static_dict"]]}
    \cup {[response |-> [format |-> f]] : f \in Formats}
    \cup {[response |-> [type |-> f]] : f \in Formats}
ApiInputs ==
    {[name |-> "A", categories |-> <<"c1">>] @@ a @@ b @@ c :
        a \in RequestPart, b \in MappingPart, c \in ResponsePart}

\* everything of the parser and the packager before their first call
ParserIdle ==
    /\ strict = TRUE
    /\ source_path = "missing" /\ fs = EmptyTree /\ archive = NoArchive
    /\ errors = <<>> /\ warnings = <<>>
    /\ pc = "Unopened" /\ temp_dir = FALSE
    /\ source_metadata = EmptyDict /\ config = EmptyDict
    /\ categories = <<>> /\ apis = <<>>
    /\ result = NoResult /\ dir_result = NoResult
    /\ pk_strict = TRUE /\ pk_errors = <<>> /\ pk_warnings = <<>>
    /\ pk_overwrite = FALSE
    /\ pk_result = [status |-> "none", exc |-> NoExc]

parse_pack_vars == <<source_path, fs, archive, parser_vars, dir_result, packager_vars>>

InitModels ==
    /\ ParserIdle
    /\ m_call \in {[cls |-> "FieldMapping", data |-> d] : d \in MappingInputs}
                 \cup {[cls |-> "WallpaperAPI", data |-> d] : d \in ApiInputs}
    /\ m_built = NotBuilt
    /\ v_source = Null /\ v_other = Null
    /\ v_errors = <<>> /\ v_warnings = <<>> /\ v_log = <<>>
    /\ EngineIdle

Built(r) == [status |-> IF r.ok THEN "built" ELSE "failed", v |-> r.v]

\* FieldMapping(**data)
construct_FieldMapping ==
    /\ m_call.cls = "FieldMapping"
    /\ m_built.status = "none"
    /\ m_built' = Built(FieldMapping(m_call.data))
    /\ UNCHANGED <<parse_pack_vars, m_call, validator_vars, engine_vars>>

\* WallpaperAPI(**data)
construct_WallpaperAPI ==
    /\ m_call.cls = "WallpaperAPI"
    /\ m_built.status = "none"
    /\ m_built' = Built(WallpaperAPI(m_call.data))
    /\ UNCHANGED <<parse_pack_vars, m_call, validator_vars, engine_vars>>

NextModels ==
    \/ construct_FieldMapping
    \/ construct_WallpaperAPI

SpecModels == InitModels /\ [][NextModels]_vars

(***************************************************************************)
(* One LTWSValidator called on constructed sources                         *)
(***************************************************************************)
IconValues ==
    {"data:image/png;base64,AAAA", "data:image/png,AAAA", "data:text/plain;base64,AAAA",
     "http://x", "https://x", "icons/a.png", "ftp://x"}

MetaFull ==
    [scheme |-> SCHEME, identifier |-> "com.x", name |-> "Src", version |-> "1.0.0",
     categories |-> "categories.toml", apis |-> ApisList(<<"apis/*.toml">>)]
MetaPoor == [scheme |-> "littletree_wallpaper_source_v2", name |-> "S"]

\* what each part of a source can be
SourceOptions ==
    [meta |-> {MetaFull, MetaPoor},
     logo |-> IconValues \cup {None, ""},
     cats |-> {<<CatC1, CatC2>>, <<CatC1>>, <<>>, <<CatC1, CatC1>>},
     cat_icon |-> IconValues \cup {None},
     refs |-> {<<"c1">>, <<"c1", "c2">>, <<"foo">>, <<"foo", "foo">>, <<"c2", "foo">>},
     api_logo |-> IconValues \cup {None},
     category_icons |-> {Null, [foo |-> "http://x"]}
                        \cup {[c1 |-> v] : v \in IconValues \cup {""}},
     second |-> {"none", "static", "namesake"}]

BaseSourceOption ==
    [meta |-> MetaFull, logo |-> None, cats |-> <<CatC1, CatC2>>, cat_icon |-> None,
     refs |-> <<"c1">>, api_logo |-> None, category_icons |-> Null, second |-> "none"]

DeviateSource(W) ==
    W \cup UNION {{[w EXCEPT ![d] = v] : w \in W, v \in SourceOptions[d]} :
                  d \in DOMAIN SourceOptions}

\* the source a caller constructs from an option, with the models' constructors
SourceOf(o) ==
    LET cats == [i \in DOMAIN o.cats |->
                    Category(IF i = 1 /\ o.cat_icon # None
                             THEN o.cats[i] @@ [icon |-> o.cat_icon]
                             ELSE o.cats[i]).v]
        first == WallpaperAPI(
                    [name |-> "A", categories |-> o.refs,
                     request |-> [url |-> "http://x"], mapping |-> [image |-> "p"]]
                    @@ (IF o.api_logo = None THEN EmptyDict ELSE [logo |-> o.api_logo])
                    @@ (IF o.category_icons = Null THEN EmptyDict
                        ELSE [category_icons |-> o.category_icons])).v
        second == IF o.second = "static" THEN <<WallpaperAPI(ApiStatic).v>>
                  ELSE IF o.second = "namesake"
                  THEN <<WallpaperAPI([name |-> "A", categories |-> <<"foo">>,
                                       request |-> [url |-> "http://y"],
                                       mapping |-> [image |-> "q"]]).v>>
                  ELSE <<>>
    IN  WallpaperSource((IF o.logo = None THEN EmptyDict ELSE [logo |-> o.logo]) @@ o.meta,
                        EmptyDict, cats, <<first>> \o second, None)

\* every source that differs from the base in at most two parts
Sources == {SourceOf(o) : o \in DeviateSource(DeviateSource({BaseSourceOption}))}
OtherSources ==
    {SourceOf(BaseSourceOption),
     SourceOf([BaseSourceOption EXCEPT !.meta = MetaPoor, !.refs = <<"foo">>])}

InitValidator ==
    /\ ParserIdle
    /\ m_call = NoCall /\ m_built = NotBuilt
    /\ v_source \in Sources
    /\ v_other \in OtherSources
    /\ v_errors = <<>> /\ v_warnings = <<>> /\ v_log = <<>>
    /\ EngineIdle

\* validator.validate_source(source) and what the caller then reads
Validate(which, source) ==
    /\ Len(v_log) < MaxValidations
    /\ LET after == validate_source(source, v_errors, v_warnings)
       IN  /\ v_errors' = after.errors
           /\ v_warnings' = after.warnings
           /\ v_log' = Append(v_log, [which |-> which,
                                      verdict |-> Len(after.errors) = 0,
                                      errors |-> after.errors,
                                      warnings |-> after.warnings])
    /\ UNCHANGED <<parse_pack_vars, models_vars, v_source, v_other, engine_vars>>

validate_the_source == Validate("source", v_source)
validate_the_other == Validate("other", v_other)

NextValidator ==
    \/ validate_the_source
    \/ validate_the_other

SpecValidator == InitValidator /\ [][NextValidator]_vars

(***************************************************************************)
(* VariableEngine / URLTemplateEngine (variables.py)                       *)
(*                                                                         *)
(* A template is a sequence of segments: literal text, or one token that   *)
(* the pattern \{\{(\w+)(?::([^}]+))?\}\} matches, given by its two groups  *)
(* (params = "" when the second group is absent).  Of the builtins, year   *)
(* stands for the ones that take no argument, random_int for the random_*  *)
(* ones with optional arguments, url_encode for itself.  The clock reads   *)
(* 2026; a random draw between lo and hi is written randint(lo,hi).        *)
(* Callable context values are left out.                                   *)
(***************************************************************************)
Lit(text) == [token |-> FALSE, name |-> text, params |-> ""]
Token(name, params) == [token |-> TRUE, name |-> name, params |-> params]

\* match.group(0)
TokenText(t) ==
    "{{" \o t.name \o (IF t.params = "" THEN "" ELSE ":" \o t.params) \o "}}"

Segments ==
    {Lit("/p?"),
     Token("year", ""), Token("year", "1"),
     Token("a", ""), Token("a", "1"), Token("b", ""),
     Token("zz", ""), Token("zz", "1"), Token("locale", ""),
     Token("random_int", ""), Token("random_int", "x,y"), Token("random_int", "1,2"),
     Token("random_int", "1,2,3"), Token("random_int", "2,1"),
     Token("url_encode", ""), Token("url_encode", "a b")}

Templates == SeqsUpTo(Segments, MaxSegments) \ {<<>>}

Contexts ==
    {EmptyDict, [a |-> "ctx_a"], [a |-> "ctx_a", year |-> "ctx_year"],
     [b |-> "ctx_b", locale |-> "ctx_locale"]}

\* variables.py 90-93: split on "," and strip, on the params of the universe
_parse_function_params(params) ==
    CASE params = "1" -> <<"1">>
      [] params = "x,y" -> <<"x", "y">>
      [] params = "1,2" -> <<"1", "2">>
      [] params = "1,2,3" -> <<"1", "2", "3">>
      [] params = "2,1" -> <<"2", "1">>
      [] params = "a b" -> <<"a b">>

\* int(s) succeeds
IsInt(s) == s \in {"1", "2", "3", "100"}
IntOf(s) == CASE s = "1" -> 1 [] s = "2" -> 2 [] s = "3" -> 3 [] s = "100" -> 100

RandInt(lo, hi) == "randint(" \o ToString(lo) \o "," \o ToString(hi) \o ")"

\* the defaults of _random_int
DefaultMin == 1
DefaultMax == 100

\* variables.py 129-136, given min_val and max_val
_random_int(min_val, max_val) ==
    IF IsInt(min_val) /\ IsInt(max_val) /\ IntOf(min_val) <= IntOf(max_val)
    THEN RandInt(IntOf(min_val), IntOf(max_val))
    ELSE RandInt(DefaultMin, DefaultMax)

\* urllib.parse.quote on the arguments of the universe
quote(text) == IF text = "a b" THEN "a%20b" ELSE text

\* the names _register_builtin_functions registers (variables.py 95-119)
Functions == {"year", "random_int", "url_encode"}

\* the positional arguments each function accepts: fewest, most
Arity(name) ==
    CASE name = "year" -> <<0, 0>>
      [] name = "random_int" -> <<0, 2>>
      [] name = "url_encode" -> <<1, 1>>

\* func(*args): str of what the function returns, or the TypeError of a call
\* with too few or too many arguments
Call(name, args) ==
    IF Len(args) < Arity(name)[1] \/ Len(args) > Arity(name)[2]
    THEN [exc |-> Exc("TypeError", <<Diag("arguments", name, ToString(Len(args)))>>),
          text |-> ""]
    ELSE CASE name = "year" -> [exc |-> NoExc, text |-> "2026"]
           [] name = "random_int" ->
                 [exc |-> NoExc,
                  text |-> _random_int(IF Len(args) >= 1 THEN args[1] ELSE "1",
                                       IF Len(args) >= 2 THEN args[2] ELSE "100")]
           [] name = "url_encode" -> [exc |-> NoExc, text |-> quote(args[1])]

\* variant: the call context and the registry are asked before the functions
_replace_variable_vars_first(match, variables) ==
    IF match.name \in DOMAIN variables
    THEN [exc |-> NoExc, text |-> variables[match.name]]
    ELSE IF match.name \in Functions
    THEN Call(match.name, IF match.params # ""
                          THEN _parse_function_params(match.params) ELSE <<>>)
    ELSE [exc |-> NoExc, text |-> TokenText(match)]

\* variables.py 66-88
_replace_variable(match, variables) ==
    IF match.name \in Functions
    THEN Call(match.name, IF match.params # ""
                          THEN _parse_function_params(match.params) ELSE <<>>)
    ELSE IF match.name \in DOMAIN variables
    THEN [exc |-> NoExc, text |-> variables[match.name]]
    ELSE [exc |-> NoExc, text |-> TokenText(match)]

\* variant: the registry wins over the call context
all_vars_registry_first(registered, context) == registered @@ context

\* variables.py 52: {**self._variables, **context}
all_vars(registered, context) == context @@ registered

RECURSIVE JoinText(_)
JoinText(pieces) ==
    IF pieces = <<>> THEN "" ELSE Head(pieces) \o JoinText(Tail(pieces))

\* re.sub over the template, left to right (variables.py 58-62): the text each
\* segment becomes, up to the first replacement that raises
RECURSIVE sub(_, _, _)
sub(template, variables, pieces) ==
    IF template = <<>>
    THEN [status |-> "returned", pieces |-> pieces, out |-> JoinText(pieces), exc |-> NoExc]
    ELSE IF ~Head(template).token
    THEN sub(Tail(template), variables, Append(pieces, Head(template).name))
    ELSE LET r == _replace_variable(Head(template), variables)
         IN  IF Raised(r.exc)
             THEN [status |-> "raised", pieces |-> pieces, out |-> "", exc |-> r.exc]
             ELSE sub(Tail(template), variables, Append(pieces, r.text))

\* variables.py 37-64
replace(template, registered, context) ==
    sub(template, all_vars(registered, context), <<>>)

\* variables.py 146-170, with str() of the numbers already taken
create_context(kwargs) ==
    Get(kwargs, "params", EmptyDict)
    @@ [screen_width |-> Get(kwargs, "screen_width", "1920"),
        screen_height |-> Get(kwargs, "screen_height", "1080"),
        screen_ratio |-> Get(kwargs, "screen_ratio", "1.777"),
        device_id |-> Get(kwargs, "device_id", ""),
        locale |-> Get(kwargs, "locale", "zh-CN")]

EngineFresh ==
    /\ ve_call.op = "none"
    /\ ve_result.status = "none"

InitVariables ==
    /\ ParserIdle
    /\ m_call = NoCall /\ m_built = NotBuilt
    /\ v_source = Null /\ v_other = Null
    /\ v_errors = <<>> /\ v_warnings = <<>> /\ v_log = <<>>
    /\ EngineIdle

\* engine.register_variable(name, value)
register_variable ==
    /\ EngineFresh
    /\ \E name \in {"a", "year"} :
          /\ name \notin DOMAIN ve_variables
          /\ ve_variables' = (name :> ("reg_" \o name)) @@ ve_variables
    /\ UNCHANGED <<parse_pack_vars, models_vars, validator_vars, ve_call, ve_result>>

\* engine.replace(template, context)
call_replace ==
    /\ EngineFresh
    /\ \E template \in Templates, context \in Contexts :
          /\ ve_call' = [op |-> "replace", template |-> template, context |-> context]
          /\ ve_result' = replace(template, ve_variables, context)
    /\ UNCHANGED <<parse_pack_vars, models_vars, validator_vars, ve_variables>>

\* engine.build_url(template, params, **kwargs): variables.py 179-199
call_build_url ==
    /\ EngineFresh
    /\ \E template \in Templates, params \in Contexts,
          kwargs \in {EmptyDict, [locale |-> "en-US"]} :
          LET context == params @@ create_context(kwargs)
          IN  /\ ve_call' = [op |-> "build_url", template |-> template,
                             context |-> context]
              /\ ve_result' = replace(template, ve_variables, context)
    /\ UNCHANGED <<parse_pack_vars, models_vars, validator_vars, ve_variables>>

NextVariables ==
    \/ register_variable
    \/ call_replace
    \/ call_build_url

SpecVariables == InitVariables /\ [][NextVariables]_vars

Next ==
    \/ call_parse
    \/ _parse_ltws_file
    \/ extracted_required_files
    \/ required_files
    \/ parse_metadata
    \/ parse_categories
    \/ parse_apis
    \/ assemble
    \/ pack
    \/ call_parse_packed
    \/ call_parse_missing

Spec == Init /\ [][Next]_vars

(***************************************************************************)
(* Properties                                                              *)
(***************************************************************************)
Range(seq) == {seq[i] : i \in DOMAIN seq}

OfKind(seq, k) == SelectSeq(seq, LAMBDA m : m.kind = k)

\* the API files the current call discovers, once source.toml is parsed
DiscoveredFiles == api_files_of(Tree, source_metadata).files

ApisDone == pc \in {"APIsResolved", "Assembled"}

\* the (API name, category id) pairs of `apis` whose id no parsed Category has
Dangling ==
    LET ids == {categories[i].id : i \in DOMAIN categories}
    IN  UNION {{<<apis[i].name, apis[i].categories[j]>> :
                   j \in {k \in DOMAIN apis[i].categories :
                             apis[i].categories[k] \notin ids}} :
               i \in DOMAIN apis}

\* a readable descriptor naming a parent
Inherits(f) == Exists(Tree, f) /\ Tree[f].ok /\ "inherit" \in DOMAIN Tree[f].data
ParentOf(f) == InheritFile(f, Tree[f].data.inherit)

\* C1: a descriptor whose `inherit` names an existing parent resolves to the
\* WallpaperAPI of the parent's fields overlaid by the child's, without `inherit`
C1_InheritanceMerge ==
    ApisDone =>
        \A i \in DOMAIN DiscoveredFiles :
            LET f == DiscoveredFiles[i]
            IN  (Inherits(f) /\ Exists(Tree, ParentOf(f)) /\ Tree[ParentOf(f)].ok) =>
                    LET merged == WallpaperAPI(MergeData(Tree[ParentOf(f)].data,
                                                         Tree[f].data))
                    IN  merged.ok => merged.v \in Range(apis)

MissingParent(f) == Inherits(f) /\ ~Exists(Tree, ParentOf(f))

\* C2: a descriptor whose parent file does not exist adds exactly one warning
\* naming the inherit path, and is constructed from its own fields: it is in
\* `apis` iff these satisfy the WallpaperAPI invariants, in both modes
C2_MissingParent ==
    /\ ApisDone =>
        LET missing == SelectSeq(DiscoveredFiles, MissingParent)
            warned == OfKind(warnings, "inherit_missing")
        IN  /\ Len(warned) = Len(missing)
            /\ \A i \in DOMAIN missing :
                LET own == WallpaperAPI(Tree[missing[i]].data)
                IN  /\ warned[i] = Diag("inherit_missing", Tree[missing[i]].data.inherit, "")
                    /\ IF own.ok
                       THEN /\ own.v \in Range(apis)
                            /\ \A e \in Range(errors) : e.subject # missing[i]
                       ELSE /\ ~strict
                            /\ own.v \notin Range(apis)
                            /\ Diag("api_file_failed", missing[i], "ParseError")
                                   \in Range(errors)
    /\ (pc = "Failed" /\ strict /\ Cause.kind = "api_file_failed"
        /\ MissingParent(Cause.subject)) =>
            /\ ~WallpaperAPI(Tree[Cause.subject].data).ok
            /\ Cause.detail = "ParseError"
            /\ warnings # <<>>
            /\ warnings[Len(warnings)] =
                   Diag("inherit_missing", Tree[Cause.subject].data.inherit, "")

C2_Witness ==
    /\ pc = "Assembled"
    /\ \E i \in DOMAIN DiscoveredFiles :
        /\ MissingParent(DiscoveredFiles[i])
        /\ WallpaperAPI(Tree[DiscoveredFiles[i]].data).v \in Range(apis)
    /\ Len(warnings) = 1

SameSource(s, t) ==
    /\ s.metadata = t.metadata
    /\ s.config = t.config
    /\ s.categories = t.categories
    /\ s.apis = t.apis

\* C3: when strict pack accepts a directory that parse accepts, parsing the
\* archive returns a source with the metadata, config, categories and apis of
\* the source parsed from the directory
C3_RoundTrip ==
    (/\ dir_result.status = "returned"
     /\ pk_strict
     /\ pk_result.status = "returned"
     /\ source_path = "ltws"
     /\ pc \in {"Assembled", "Failed"}) =>
        /\ result.status = "returned"
        /\ SameSource(result.source, dir_result.source)

\* C4: a non-strict parse with dangling category references returns a source
\* and has every violation in its errors or warnings
C4_NonStrictReferentialCheck ==
    (~strict /\ pc = "Assembled" /\ Dangling # {}) =>
        /\ result.status = "returned"
        /\ \A d \in Dangling :
              Diag("category_ref", d[1], d[2]) \in Range(errors) \cup Range(warnings)

\* C5: a strict parse that resolved APIs with a dangling category reference
\* raises a ValidationError whose message has every violation (API name and
\* missing id), and returns no source
C5_StrictReferentialCheck ==
    [][(pc = "APIsResolved" /\ strict /\ Dangling # {}) =>
          /\ pc' = "Failed"
          /\ result'.status = "raised"
          /\ result'.source = Null
          /\ result'.exc.type = "ValidationError"
          /\ \A d \in Dangling :
                Diag("category_ref", d[1], d[2]) \in Range(result'.exc.msg)]_vars

C5_Witness ==
    /\ pc = "Failed"
    /\ strict
    /\ result.exc.type = "ValidationError"
    /\ Cardinality(Dangling) >= 2

CategoryEntries == Get(Tree["categories.toml"].data, "categories", <<>>)

ItemFailureKinds == {"api_file_failed", "api_invalid", "category_invalid", "category_failed"}

\* C6: a non-strict parse keeps exactly the categories and the APIs that
\* construct, in order, with one error per failed item, and no item failure
\* aborts it; a strict parse gets past no failed item
C6_ItemLevelSkipping ==
    LET good_entries == SelectSeq(CategoryEntries, LAMBDA e : Category(e).ok)
        bad_entries == SelectSeq(CategoryEntries, LAMBDA e : ~Category(e).ok)
        good_files == SelectSeq(DiscoveredFiles,
                                LAMBDA f : ~Raised(parse_api_file(Tree, f).exc))
        bad_files == SelectSeq(DiscoveredFiles,
                               LAMBDA f : Raised(parse_api_file(Tree, f).exc))
    IN  /\ (pc \in {"CategoriesParsed", "APIsResolved", "Assembled"}) =>
            /\ categories = [i \in 1..Len(good_entries) |-> Category(good_entries[i]).v]
            /\ Len(OfKind(errors, "category_failed")) = Len(bad_entries)
            /\ strict => bad_entries = <<>>
        /\ ApisDone =>
            /\ apis = [i \in 1..Len(good_files) |-> parse_api_file(Tree, good_files[i]).api]
            /\ [i \in 1..Len(bad_files) |-> bad_files[i]]
                   = [i \in 1..Len(OfKind(errors, "api_file_failed")) |->
                          OfKind(errors, "api_file_failed")[i].subject]
            /\ strict => bad_files = <<>>
        /\ (pc = "Assembled") =>
            /\ result.source.categories = categories
            /\ result.source.apis = apis
        /\ (pc = "Failed" /\ ~strict /\ result.exc.type = "WallpaperSourceError") =>
            Cause.kind \notin ItemFailureKinds

C6_Witness ==
    /\ ~strict
    /\ pc = "Assembled"
    /\ OfKind(errors, "api_file_failed") # <<>>
    /\ apis # <<>>
    /\ DiscoveredFiles[1] = OfKind(errors, "api_file_failed")[1].subject

\* what the current call's tree lacks structurally
StructuralDefect ==
    \/ ~Exists(Tree, "source.toml")
    \/ ~Exists(Tree, "categories.toml")
    \/ Tree["source.toml"].ok
       /\ Get(Tree["source.toml"].data, "scheme", None) # SCHEME

\* C7: in both modes a tree without source.toml or categories.toml, or whose
\* scheme is not the literal, stops the parse before its metadata is accepted:
\* no source is returned, and the call ends raised
C7_StructuralFailuresAbort ==
    StructuralDefect =>
        /\ pc \in {"Unopened", "ArchiveSource", "Extracted", "DirectorySource",
                   "StructurallyValidated", "Failed"}
        /\ result.status # "returned"
        /\ pc = "Failed" => result.status = "raised" /\ result.source = Null

C7_Witness ==
    /\ ~strict
    /\ pc = "Failed"
    /\ source_path = "dir"
    /\ Exists(Tree, "source.toml") /\ Exists(Tree, "categories.toml")
    /\ Tree["source.toml"].ok /\ "scheme" \notin DOMAIN Tree["source.toml"].data
    /\ result.exc.type = "WallpaperSourceError"

\* C8: a tree with source.toml and categories.toml and no apis/*.toml passes
\* the required-files check when source.toml's `apis` list names an existing
\* descriptor
C8_ExplicitApisAccepted ==
    (/\ Exists(Tree, "source.toml") /\ Exists(Tree, "categories.toml")
     /\ GlobFiles(Tree, "apis", ".toml") = <<>>
     /\ Tree["source.toml"].ok
     /\ "apis" \in DOMAIN Tree["source.toml"].data
     /\ glob_patterns(Tree, Tree["source.toml"].data.apis.v) # <<>>) =>
        ~(pc = "Failed" /\ Cause.kind \in {"no_apis_dir", "no_api_toml"})

\* C9: with `apis` a single string P the parser resolves the APIs it resolves
\* with `apis` the list [P], and fails at discovery only if it does with [P]
C9_StringPattern ==
    ("apis" \in DOMAIN source_metadata /\ source_metadata.apis.str) =>
        LET as_list == [source_metadata EXCEPT !.apis = ApisList(source_metadata.apis.v)]
        IN  /\ ApisDone => apis = _parse_apis(Tree, as_list, strict).apis
            /\ (pc = "Failed" /\ Cause.kind = "glob") =>
                   Raised(api_files_of(Tree, as_list).exc)

\* C10: the extraction directory exists from the extraction to the end of the
\* call, and no longer exists when parse has returned or raised
C10_StagingTeardown ==
    /\ pc \in {"Assembled", "Failed"} => ~temp_dir
    /\ (pc = "Extracted"
        \/ (source_path = "ltws"
            /\ pc \in {"DirectorySource", "StructurallyValidated", "MetadataParsed",
                       "CategoriesParsed", "APIsResolved"})) => temp_dir

C10_Witness ==
    /\ pc = "Failed"
    /\ source_path = "ltws"
    /\ Cause.kind = "no_api_toml"

\* the latest call raised because its path does not exist
RaisedNotFound == pc = "Failed" /\ result.exc.type = "FileNotFoundError"
                  /\ Cause.kind = "not_found"

\* the latest pack call raised because its output file exists
RaisedOutputExists == pk_result.status = "raised" /\ pk_result.exc.type = "PackagingError"
                      /\ pk_result.exc.msg[1].kind = "output_exists"

\* C11: after a call that raised because the input path does not exist (parse)
\* or because the output file exists (pack), a call that produces no diagnostic,
\* the instance's errors and warnings hold nothing of an earlier call
C11_DiagnosticsPerCall ==
    /\ RaisedNotFound => errors = <<>> /\ warnings = <<>>
    /\ RaisedOutputExists => pk_errors = <<>> /\ pk_warnings = <<>>

\* a pack call got past the output check
PreflightRan == pk_result.status # "none" /\ ~RaisedOutputExists

ForbiddenFiles(tree) ==
    {p \in Paths : Exists(tree, p) /\ PathSuffix(p) \in ForbiddenExtensions}

\* C17: when the source directory holds a file with a forbidden extension,
\* pre-flight validation has an error with that file's relative path, and a
\* strict pack raises ValidationError
C17_ForbiddenAssets ==
    (PreflightRan /\ ForbiddenFiles(fs) # {}) =>
        /\ \A p \in ForbiddenFiles(fs) : \E e \in Range(pk_errors) : e.subject = p
        /\ pk_strict => pk_result.status = "raised"
                        /\ pk_result.exc.type = "ValidationError"

\* C18: a pack call with overwrite=False on an existing output file raises
\* PackagingError and changes neither the file nor the packager's lists; a
\* pack call with overwrite=True never raises because the file exists
C18_OutputCollision ==
    /\ [](RaisedOutputExists => ~pk_overwrite /\ archive.exists)
    /\ [][(archive.exists /\ packager_vars' # packager_vars /\ ~pk_overwrite') =>
             /\ pk_result'.status = "raised"
             /\ pk_result'.exc = Exc("PackagingError", <<Diag("output_exists", "ltws", "")>>)
             /\ archive' = archive
             /\ pk_errors' = pk_errors
             /\ pk_warnings' = pk_warnings]_vars

C18_Witness ==
    /\ RaisedOutputExists
    /\ archive.tar
    /\ pk_strict

\* C19: the parser accepts an archive before extraction exactly when the
\* packager's check of the same file accepts it
C19_ArchiveChecksAgree ==
    /\ (source_path = "ltws" /\ pc = "Extracted") => _validate_ltws_file(archive)
    /\ (source_path = "ltws" /\ pc = "Failed" /\ Cause.kind = "invalid_ltws") =>
           ~_validate_ltws_file(archive)

\* a tar with source.toml and categories.toml and no apis/*.toml member
LacksApiDescriptors(ltws) ==
    /\ ltws.exists /\ ltws.tar
    /\ Exists(ltws.members, "source.toml") /\ Exists(ltws.members, "categories.toml")
    /\ ~ \E p \in Paths : /\ Exists(ltws.members, p)
                          /\ PathDir(p) = "apis" /\ PathSuffix(p) = ".toml"

\* C20: an archive with source.toml and categories.toml and no member
\* apis/....toml is rejected by the parser's check before extraction and by
\* the packager's check
C20_ArchiveNeedsApiDescriptors ==
    (source_path = "ltws" /\ LacksApiDescriptors(archive)) =>
        /\ ~_validate_ltws_file(archive)
        /\ pc \in {"Unopened", "ArchiveSource", "Failed"}
        /\ pc = "Failed" => Cause.kind = "invalid_ltws"

\* a keyword of a constructor call is populated: given, not None, not empty
Populated(d, f) == f \in DOMAIN d /\ d[f] \notin {"", None}
HasItemMapping(d) == "item_mapping" \in DOMAIN d /\ DOMAIN d.item_mapping # {}

\* C14: FieldMapping(**d) fails when a single-image field and `items` are both
\* populated, when `items` comes without item_mapping, and when item_mapping
\* lacks `image`; it constructs from item_mapping = {image: i} alone
C14_MappingExclusivity ==
    (m_call.cls = "FieldMapping" /\ m_built.status # "none") =>
        LET d == m_call.data
        IN  /\ ((\E f \in SingleFields : Populated(d, f)) /\ Populated(d, "items"))
                   => m_built.status = "failed"
            /\ (Populated(d, "items") /\ ~HasItemMapping(d)) => m_built.status = "failed"
            /\ (HasItemMapping(d) /\ "image" \notin DOMAIN d.item_mapping)
                   => m_built.status = "failed"
            /\ d = [item_mapping |-> [image |-> "i"]] => m_built.status = "built"

\* the response names a static format: `format`, or `type` when there is no
\* format, is static_list or static_dict in any letter case
StaticResponse(d) ==
    /\ "response" \in DOMAIN d
    /\ LET r == d.response
           named == IF "format" \in DOMAIN r /\ r.format # "" THEN r.format
                    ELSE IF "type" \in DOMAIN r THEN r.type ELSE ""
       IN  named \in {"static_list", "static_dict", "STATIC_LIST", "Static_Dict"}

\* C15: WallpaperAPI(**d) with otherwise valid fields fails when the response
\* is not static and request or mapping is missing; it constructs when the
\* response is static, without request, and a missing mapping becomes the
\* all-empty FieldMapping; a constructed API never has a null mapping
C15_RequestMappingPresence ==
    (m_call.cls = "WallpaperAPI" /\ m_built.status # "none") =>
        LET d == m_call.data
            has_request == "request" \in DOMAIN d
            has_mapping == "mapping" \in DOMAIN d
            mapping_valid == has_mapping => d.mapping = [image |-> "p"]
        IN  /\ (~StaticResponse(d) /\ (~has_request \/ ~has_mapping))
                   => m_built.status = "failed"
            /\ (~StaticResponse(d) /\ has_request /\ has_mapping /\ mapping_valid)
                   => m_built.status = "built"
            /\ (StaticResponse(d) /\ mapping_valid) => m_built.status = "built"
            /\ m_built.status = "built" =>
                   /\ m_built.v.mapping # Null
                   /\ ~has_mapping =>
                          /\ \A f \in MappingStrFields : m_built.v.mapping.str[f] = None
                          /\ m_built.v.mapping.item_mapping = Null
                   /\ m_built.v.request = Null <=> ~has_request

C15_Witness ==
    /\ m_call.cls = "WallpaperAPI"
    /\ m_built.status = "built"
    /\ m_call.data.response = [type |-> "Static_Dict"]
    /\ "request" \notin DOMAIN m_call.data
    /\ "mapping" \notin DOMAIN m_call.data

(***************************************************************************)
(* Validator claims, over the calls recorded in v_log                      *)
(***************************************************************************)
SourceOfCall(entry) == IF entry.which = "source" THEN v_source ELSE v_other

\* C12: validate_source called again on the same unchanged source, on the same
\* validator and also after another source was validated in between, gives the
\* same verdict, errors and warnings; the verdict is "no errors"; validation
\* leaves the sources as they were.
C12_ValidatorIdempotent ==
    /\ [](\A i, j \in DOMAIN v_log :
            v_log[i].which = v_log[j].which =>
                /\ v_log[i].verdict = v_log[j].verdict
                /\ v_log[i].errors = v_log[j].errors
                /\ v_log[i].warnings = v_log[j].warnings)
    /\ [](\A i \in DOMAIN v_log : v_log[i].verdict <=> v_log[i].errors = <<>>)
    /\ [](v_log # <<>> => /\ v_errors = v_log[Len(v_log)].errors
                         /\ v_warnings = v_log[Len(v_log)].warnings)
    /\ [][v_source' = v_source /\ v_other' = v_other]_vars

C12_Witness ==
    /\ Len(v_log) = 3
    /\ v_log[1].which = "source" /\ v_log[2].which = "other" /\ v_log[3].which = "source"
    /\ v_log[1].errors # <<>>
    /\ v_log[1].warnings # v_log[2].warnings
    /\ v_log[2].errors # v_log[1].errors

\* how many elements of a sequence satisfy a test
Count(seq, Test(_)) == Cardinality({i \in DOMAIN seq : Test(seq[i])})

\* the (API position, entry position) pairs of a source whose entry is not the
\* id of any of its categories
DanglingEntries(source) ==
    {<<a, k>> \in (DOMAIN source.apis) \X (1..2) :
        /\ k \in DOMAIN source.apis[a].categories
        /\ \A c \in DOMAIN source.categories :
              source.categories[c].id # source.apis[a].categories[k]}

\* nothing but the APIs' categories entries is reported
OtherwiseValid(entry) ==
    \A e \in DOMAIN entry.errors : entry.errors[e].kind = "category_ref"

\* C13: each API categories entry that is the id of no Category of the source
\* gives exactly one error, which names the API and the id; a source without
\* such an entry gives none. On an otherwise valid source these are all the
\* errors there are.
C13_ReferentialIntegrity ==
    \A n \in DOMAIN v_log :
        LET source == SourceOfCall(v_log[n])
            errs == v_log[n].errors
        IN  /\ \A name \in {"A", "S"}, id \in {"c1", "c2", "foo"} :
                  Count(errs, LAMBDA e : e.kind = "category_ref"
                                           /\ e.subject = name /\ e.detail = id)
                  = Cardinality({p \in DanglingEntries(source) :
                                    /\ source.apis[p[1]].name = name
                                    /\ source.apis[p[1]].categories[p[2]] = id})
            /\ OtherwiseValid(v_log[n]) =>
                  /\ Len(errs) = Cardinality(DanglingEntries(source))
                  /\ \A e \in DOMAIN errs :
                        \E p \in DanglingEntries(source) :
                            /\ errs[e].subject = source.apis[p[1]].name
                            /\ errs[e].detail = source.apis[p[1]].categories[p[2]]
                  /\ v_log[n].verdict <=> DanglingEntries(source) = {}

C13_Witness ==
    /\ v_log # <<>>
    /\ v_log[1].which = "source"
    /\ v_source.apis[1].categories = <<"foo", "foo">>
    /\ OtherwiseValid(v_log[1])
    /\ v_log[1].errors = <<Diag("category_ref", "A", "foo"), Diag("category_ref", "A", "foo")>>

\* the icon grammar: data:image/<subtype>;base64,<payload>, or an http(s) URL
WellFormedIcon(value) ==
    value \in {"data:image/png;base64,AAAA", "http://x", "https://x"}

\* the icon and logo values of a source that the validator inspects, each with
\* the place it stands at
InspectedIcons(source) ==
    (IF IsSet(Get(source.metadata, "logo", None))
     THEN {<<"metadata.logo", source.metadata.logo>>} ELSE {})
    \cup {<<"categories[" \o ToString(i - 1) \o "].icon", source.categories[i].icon>> :
            i \in {j \in DOMAIN source.categories : IsSet(source.categories[j].icon)}}
    \cup {<<"API '" \o source.apis[a].name \o "'.logo", source.apis[a].logo>> :
            a \in {b \in DOMAIN source.apis : IsSet(source.apis[b].logo)}}
    \cup UNION {{<<"API '" \o source.apis[a].name \o "'.category_icons['" \o id \o "']",
                   source.apis[a].category_icons[id]>> :
                    id \in DOMAIN source.apis[a].category_icons} :
                a \in {b \in DOMAIN source.apis : source.apis[b].category_icons # Null}}

IconError(e, place) == e.kind \in {"icon_base64", "icon_invalid"} /\ e.subject = place

\* C16: for every icon or logo value the validator inspects (metadata.logo,
\* Category.icon, WallpaperAPI.logo, each category_icons value) an error about
\* that place is recorded exactly when the value is neither a data:image/
\* value containing ;base64, nor an http:// or https:// URL; an ill-formed
\* value (a bare local path among them) makes the verdict fail.
C16_IconGrammar ==
    \A n \in DOMAIN v_log :
        \A icon \in InspectedIcons(SourceOfCall(v_log[n])) :
            /\ (\E e \in DOMAIN v_log[n].errors : IconError(v_log[n].errors[e], icon[1]))
               <=> ~WellFormedIcon(icon[2])
            /\ ~WellFormedIcon(icon[2]) => ~v_log[n].verdict

C16_Witness ==
    /\ v_log # <<>>
    /\ v_log[1].which = "source"
    /\ InspectedIcons(v_source) = {<<"metadata.logo", "data:image/png;base64,AAAA">>,
                                   <<"API 'A'.logo", "icons/a.png">>}
    /\ v_log[1].errors = <<Diag("icon_invalid", "API 'A'.logo", "")>>
    /\ ~v_log[1].verdict

(***************************************************************************)
(* Variable engine claims                                                  *)
(***************************************************************************)
\* what a builtin of that name can put in the output
BuiltinTexts(name) ==
    CASE name = "year" -> {"2026"}
      [] name = "random_int" -> {RandInt(1, 2), RandInt(1, 100)}
      [] name = "url_encode" -> {"a%20b"}

\* C21: each token is substituted by this precedence: a builtin function of
\* that name, even when the call context or the registry defines the name;
\* otherwise the call context's value; otherwise the registered variable; a
\* name in none of the three is left exactly as written, and a template of
\* such tokens and context or registry names never raises.
C21_LookupOrder ==
    /\ ve_result.status = "returned" =>
          /\ Len(ve_result.pieces) = Len(ve_call.template)
          /\ \A i \in DOMAIN ve_call.template :
                LET t == ve_call.template[i]
                    piece == ve_result.pieces[i]
                IN  t.token =>
                      IF t.name \in Functions THEN piece \in BuiltinTexts(t.name)
                      ELSE IF t.name \in DOMAIN ve_call.context
                      THEN piece = ve_call.context[t.name]
                      ELSE IF t.name \in DOMAIN ve_variables
                      THEN piece = ve_variables[t.name]
                      ELSE piece = TokenText(t)
    /\ (/\ ve_call.op # "none"
        /\ \A i \in DOMAIN ve_call.template :
              ve_call.template[i].name \notin Functions)
       => ve_result.status = "returned"

C21_Witness ==
    /\ ve_call.op = "replace"
    /\ ve_call.template = <<Token("year", ""), Token("a", "")>>
    /\ ve_call.context = [a |-> "ctx_a", year |-> "ctx_year"]
    /\ ve_variables = [a |-> "reg_a", year |-> "reg_year"]
    /\ ve_result.status = "returned"
    /\ ve_result.out = "2026ctx_a"

\* C22: replace and build_url return a string and raise nothing, whatever
\* arguments the template passes to the builtins.
C22_EngineNeverFails == ve_call.op # "none" => ve_result.status = "returned"

(***************************************************************************)
(* API file discovery                                                      *)
(***************************************************************************)
\* the files a pattern names, as a literal path or as a glob relative to the root
GlobMatches(tree, pattern) ==
    {p \in Paths : /\ Exists(tree, p)
                   /\ \/ p = pattern
                      \/ /\ pattern = "extra/*.toml"
                         /\ PathDir(p) = "extra" /\ PathSuffix(p) = ".toml"}

\* the API files the parser parsed in the parse call that has just returned
ParsedApiFiles == api_files_of(fs, source_metadata).files

ListedPatterns == SeqToSet(source_metadata.apis.v)

\* C23: when the `apis` list holds a pattern that is no existing path but
\* matches files as a glob, the parser's API files are exactly the files the
\* listed patterns match, each once; apis/*.toml is the fallback only when
\* they match nothing.
C23_GlobPatternsResolved ==
    (/\ pc = "Assembled" /\ source_path = "dir"
     /\ "apis" \in DOMAIN source_metadata
     /\ ~source_metadata.apis.str
     /\ \E pattern \in ListedPatterns :
           ~Exists(fs, pattern) /\ GlobMatches(fs, pattern) # {})
    => /\ SeqToSet(ParsedApiFiles) = UNION {GlobMatches(fs, q) : q \in ListedPatterns}
       /\ Cardinality(SeqToSet(ParsedApiFiles)) = Len(ParsedApiFiles)

\* the API files the packager's pre-flight validation finds and its staging copies
PackagerApiFiles == packager_api_files(fs, fs["source.toml"].data)

\* C24: for every value of the `apis` field the parser parses the same set of
\* API files that the packager finds and stages.
C24_SameApiFiles ==
    (/\ pc = "Assembled" /\ source_path = "dir"
     /\ pk_result.status = "returned")
    => /\ SeqToSet(ParsedApiFiles) = SeqToSet(PackagerApiFiles)
       /\ \A p \in SeqToSet(ParsedApiFiles) : Exists(archive.members, p)

(***************************************************************************)
(* Packager outcomes                                                       *)
(***************************************************************************)
RaisedSelfCheck ==
    /\ pk_result.status = "raised"
    /\ pk_result.exc.msg = <<Diag("self_check", "ltws", "")>>

\* the archive lacks the categories file that its source.toml declares
LacksDeclaredCategories(ltws) ==
    /\ Exists(ltws.members, "source.toml")
    /\ ltws.members["source.toml"].ok
    /\ Get(ltws.members["source.toml"].data, "categories", None) # None
    /\ ~Exists(ltws.members, ltws.members["source.toml"].data.categories)

SelfCheckFailure(ltws) ==
    \/ ~Exists(ltws.members, "source.toml")
    \/ \A p \in Paths : Exists(ltws.members, p) => ~(PathDir(p) = "apis" /\ PathSuffix(p) = ".toml")
    \/ LacksDeclaredCategories(ltws)

\* C25: when the archive pack has written lacks source.toml, any apis/*.toml
\* member or the categories file its source.toml declares, pack does not
\* return the path but raises a PackagingError, and the written file stays
\* at output_file.
C25_SelfCheckFailure ==
    /\ pk_result.status = "returned" => archive.exists /\ ~SelfCheckFailure(archive)
    /\ RaisedSelfCheck =>
          /\ pk_result.exc.type = "PackagingError"
          /\ archive.exists /\ archive.tar
          /\ Exists(archive.members, "source.toml")
          /\ Exists(archive.members, "manifest.json")

\* non-strict, the declared categories file is missing from the directory
C25_Witness ==
    /\ RaisedSelfCheck
    /\ ~pk_strict
    /\ ~Exists(fs, "categories.toml")
    /\ LacksDeclaredCategories(archive)
    /\ archive.exists

\* strict, every API file lies outside apis/
C25_WitnessOutsideApis ==
    /\ RaisedSelfCheck
    /\ pk_strict
    /\ Exists(archive.members, "extra/x.toml")
    /\ archive.exists

(***************************************************************************)
(* Parser outcomes                                                         *)
(***************************************************************************)
\* exceptions.py: WallpaperSourceError and its subclasses
LibraryErrors ==
    {"WallpaperSourceError", "InvalidSourceError", "FileNotFoundError",
     "ValidationError", "ParseError", "PackagingError", "VariableError"}

\* C26: every exception that escapes parse, strict or not and at whatever
\* stage, is a WallpaperSourceError or a subclass of it.
C26_TypedFailures ==
    result.status = "raised" => result.exc.type \in LibraryErrors

\* C29: a source that a strict parse returns has no dangling category
\* reference: WallpaperSource.validate_categories() on it is empty, so the
\* validator's last step adds nothing, and the parser's errors list is empty.
C29_StrictParseIntegrity ==
    (strict /\ result.status = "returned") =>
        /\ validate_categories(result.source) = <<>>
        /\ \A a \in DOMAIN result.source.apis :
              \A k \in DOMAIN result.source.apis[a].categories :
                 \E c \in DOMAIN result.source.categories :
                    result.source.categories[c].id = result.source.apis[a].categories[k]
        /\ LET checked == validate_source(result.source, <<>>, <<>>).errors
           IN  \A e \in DOMAIN checked : checked[e].kind # "category_ref"
        /\ errors = <<>>

C29_Witness ==
    /\ strict /\ result.status = "returned"
    /\ Len(result.source.apis) = 2
    /\ result.source.apis[2].categories = <<"c1", "c2">>
    /\ Len(result.source.categories) = 2

(***************************************************************************)
(* The validator on what the constructors built                            *)
(***************************************************************************)
AnyPopulated(d) ==
    \/ \E f \in MappingStrFields : Populated(d, f)
    \/ HasItemMapping(d)

\* C27: the validator's mapping check adds no error for a FieldMapping that
\* the constructor accepted and that has a field populated; it adds one for a
\* mapping the constructor rejects, and for an all-empty mapping exactly when
\* the API is not static.
C27_MappingPassAgrees ==
    m_call.cls = "FieldMapping" /\ m_built.status # "none" =>
        \A static \in BOOLEAN :
            LET added == _validate_mapping(FieldMappingOf(m_call.data), "A", static)
            IN  /\ (m_built.status = "built" /\ AnyPopulated(m_call.data)) => added = <<>>
                /\ m_built.status = "failed" => added # <<>>
                /\ (m_built.status = "built" /\ ~AnyPopulated(m_call.data)) =>
                       (added # <<>> <=> ~static)

\* C28: for every response configuration the validator decides static or not
\* as the WallpaperAPI constructor did, so a WallpaperAPI that constructed is
\* never reported to lack its request configuration or its mapping.
C28_StaticClassificationAgrees ==
    m_call.cls = "WallpaperAPI" /\ m_built.status # "none" =>
        /\ _is_static_response([response |-> Get(m_call.data, "response", EmptyDict)])
              <=> StaticResponse(m_call.data)
        /\ m_built.status = "built" =>
              /\ _is_static_response(m_built.v) <=> StaticResponse(m_call.data)
              /\ LET added == _validate_api(m_built.v, <<Category(CatC1).v>>)
                 IN  \A e \in DOMAIN added : added[e].kind \notin {"no_request", "no_mapping"}

C28_Witness ==
    /\ m_call.cls = "WallpaperAPI"
    /\ m_built.status = "built"
    /\ m_call.data.response = [format |-> "", type |-> "static_dict"]
    /\ "request" \notin DOMAIN m_call.data
    /\ "mapping" \notin DOMAIN m_call.data
    /\ _validate_api(m_built.v, <<Category(CatC1).v>>) = <<>>

\* C30: a strict pack whose validation of the source directory fails raises
\* before staging and archiving: output_file is neither created nor changed,
\* even with overwrite=True; and no pack call changes the source directory.
C30_StrictPreflightWritesNothing ==
    [][/\ fs' = fs
       /\ (/\ packager_vars' # packager_vars
           /\ pk_strict'
           /\ ~(archive.exists /\ ~pk_overwrite')
           /\ ~_validate_source_directory(fs).valid)
          => /\ archive' = archive
             /\ pk_result'.status = "raised"
             /\ pk_result'.exc.type = "ValidationError"]_vars

C30_Witness ==
    /\ pk_strict /\ pk_overwrite
    /\ pk_result.status = "raised" /\ pk_result.exc.type = "ValidationError"
    /\ ~_validate_source_directory(fs).valid
    /\ archive.exists /\ Exists(archive.members, "manifest.json")

====
